---- MODULE Spec2Model ----
(***************************************************************************)
(* Notifications backend of the worship-schedule application: the device   *)
(* registry (register / unregister / update-preferences), the token        *)
(* collector and dispatcher (collectDeviceTokensByUserIds, sendToUsers)    *)
(* and the reminder jobs, modelled from src/server.js.                     *)
(*                                                                         *)
(* The document store (Firestore) and the push gateway (FCM) are external. *)
(* A collection is a function from document keys to documents, a document  *)
(* is a function from field names to values (a field that is absent is not *)
(* in the DOMAIN).  set(data, {merge: true}) is MergeSet below.            *)
(***************************************************************************)
EXTENDS Integers, Sequences, FiniteSets, TLC

VARIABLES
    devices,    \* collection notification_devices: key -> document
    clock,      \* the store's server time: number of writes applied so far
    last,       \* the last completed registry request and its HTTP status
    req,        \* the sendToUsers call in flight (one at a time)
    offSince,   \* tokens whose device has been disabled ever since req started
    config,     \* process environment: CRON_SECRET and the local time zone
    users,      \* collection users: id -> document (read only)
    schedules,  \* collection schedules: key -> document (read only)
    services,   \* collection services (with the size of each songs
                \* sub-collection): id -> document (read only)
    job         \* the reminder job invocation: its progress, log and response

vars == <<devices, clock, last, req, offSince, config, users, schedules,
          services, job>>

domainVars == <<config, users, schedules, services>>

-----------------------------------------------------------------------------
(* Bounds of the model *)

\* Writes the store accepts in one behaviour (caps the server timestamps).
MaxWrites == 3
\* Longest user-id list handed to the collector.
MaxIds == 25

(* Program constants *)

\* server.js:143 - values per 'in' query
ChunkSize == 10

EmptyToken == 0
\* Raw push tokens; EmptyToken stands for the empty (missing) token.
Tokens == {1, 2}
RawTokens == {EmptyToken} \cup Tokens
\* Authenticated callers (req.auth.uid) of the registry endpoints.
Callers == {1, 2}

\* The categories the model distinguishes (two of the six of CATEGORIES).
Categories == {"reminder", "announcements"}

\* Preference maps a request may carry; <<>> is both {} and a missing field
\* (server.js:94 and :131 turn a missing map into {}).
PrefInputs ==
    {<<>>} \cup {(c :> b) : c \in Categories, b \in {FALSE}}
           \cup {("reminder" :> TRUE)}

\* (role, platform) pairs of a register request; "" is a missing field.
Profiles == {<<"", "">>, <<"minister", "web">>}

\* The enabled field of an update-preferences body.
EnabledInputs == {"undefined", "true", "false"}

-----------------------------------------------------------------------------
(* Helpers *)

Min(a, b) == IF a < b THEN a ELSE b

SeqToSet(s) == {s[i] : i \in 1..Len(s)}

\* a || b on strings: the empty string is falsy.
OrElse(a, b) == IF a = "" THEN b ELSE a

\* crypto sha256 of the token, hex: modelled by an injective map on the
\* bounded token domain (the code relies on nothing but its being a function
\* without collisions); the order of the keys differs from that of the tokens.
tokenId(token) == (token * 7 + 3) % 11

DeviceKeys == {tokenId(t) : t \in Tokens}

-----------------------------------------------------------------------------
(* The document store *)

\* One field under set(..., {merge: true}): a non-empty map is merged leaf by
\* leaf into the stored map, an empty map and any other value replace the
\* stored value.
MergeField(f, old, new) ==
    IF f = "preferences" /\ new[f] # <<>> /\ f \in DOMAIN old
    THEN new[f] @@ old[f]
    ELSE new[f]

\* Mutant: a field the document already has is kept, not overwritten.
MergeSetKeepingStored(coll, key, data) ==
    LET old == IF key \in DOMAIN coll THEN coll[key] ELSE <<>>
        doc == [f \in DOMAIN data \cup DOMAIN old |->
                   IF f \in DOMAIN old /\ f # "updatedAt" THEN old[f] ELSE data[f]]
    IN  (key :> doc) @@ coll

\* doc(key).set(data, {merge: true})
MergeSet(coll, key, data) ==
    LET old == IF key \in DOMAIN coll THEN coll[key] ELSE <<>>
        doc == [f \in DOMAIN data \cup DOMAIN old |->
                   IF f \in DOMAIN data THEN MergeField(f, old, data) ELSE old[f]]
    IN  (key :> doc) @@ coll

\* FieldValue.serverTimestamp() of the write being applied
ServerTimestamp == clock + 1

CanWrite == clock < MaxWrites

-----------------------------------------------------------------------------
(* Token collector: collectDeviceTokensByUserIds *)

\* s.slice(a, b) with 0-based bounds, a <= s.length
Slice(s, a, b) == SubSeq(s, a + 1, Min(b, Len(s)))

\* for (let i = 0; i < userIds.length; i += 10) chunks.push(userIds.slice(i, i + 10))
\* Mutant: the last, shorter chunk is dropped.
RECURSIVE ChunksFromFullOnly(_, _)
ChunksFromFullOnly(userIds, i) ==
    IF i + ChunkSize <= Len(userIds)
    THEN <<Slice(userIds, i, i + ChunkSize)>>
             \o ChunksFromFullOnly(userIds, i + ChunkSize)
    ELSE <<>>

RECURSIVE ChunksFrom(_, _)
ChunksFrom(userIds, i) ==
    IF i < Len(userIds)
    THEN <<Slice(userIds, i, i + ChunkSize)>> \o ChunksFrom(userIds, i + ChunkSize)
    ELSE <<>>

Chunks(userIds) == ChunksFrom(userIds, 0)

\* The store returns the documents of a query in the order of their keys.
RECURSIVE KeysInOrder(_)
KeysInOrder(keys) ==
    IF keys = {} THEN <<>>
    ELSE LET k == CHOOSE x \in keys : \A y \in keys : x <= y
         IN  <<k>> \o KeysInOrder(keys \ {k})

\* Mutant: the query without its enabled filter.
QueryAnyDevices(coll, group) ==
    LET hit == {k \in DOMAIN coll :
                   /\ "userId" \in DOMAIN coll[k]
                   /\ coll[k].userId \in SeqToSet(group)}
        ks == KeysInOrder(hit)
    IN  [i \in 1..Len(ks) |-> coll[ks[i]]]

\* .where('enabled', '==', true).where('userId', 'in', group).get()
QueryEnabledDevices(coll, group) ==
    LET hit == {k \in DOMAIN coll :
                   /\ "enabled" \in DOMAIN coll[k]
                   /\ coll[k].enabled = TRUE
                   /\ "userId" \in DOMAIN coll[k]
                   /\ coll[k].userId \in SeqToSet(group)}
        ks == KeysInOrder(hit)
    IN  [i \in 1..Len(ks) |-> coll[ks[i]]]

\* Mutant: the gate as `if (!allow) return`, so that an unset category is
\* refused like an explicit false.
PreferenceAllowsTruthy(data, category) ==
    /\ "preferences" \in DOMAIN data
    /\ category \in DOMAIN data.preferences
    /\ data.preferences[category] = TRUE

\* allow = data.preferences?.[category]; the gate is allow !== false
PreferenceAllows(data, category) ==
    ~ /\ "preferences" \in DOMAIN data
      /\ category \in DOMAIN data.preferences
      /\ data.preferences[category] = FALSE

\* if (data.token): the field is there and is not the empty string
HasToken(data) == "token" \in DOMAIN data /\ data.token # EmptyToken

\* snap.forEach(...): the tokens one query result adds, in order
SnapTokens(snap, category) ==
    LET Keep(data) == PreferenceAllows(data, category) /\ HasToken(data)
        kept == SelectSeq(snap, Keep)
    IN  [i \in 1..Len(kept) |-> kept[i].token]

\* Mutant: the collected array is returned as it is.
KeepDuplicates(s) == s

\* [...new Set(tokens)]: the first occurrence of each value, in order
RECURSIVE Dedupe(_)
Dedupe(s) ==
    IF s = <<>> THEN <<>>
    ELSE LET front == Dedupe(SubSeq(s, 1, Len(s) - 1))
         IN  IF s[Len(s)] \in SeqToSet(front) THEN front
             ELSE Append(front, s[Len(s)])

\* The loop over the chunks from chunk j on, against one state of the store.
RECURSIVE CollectLoop(_, _, _, _)
CollectLoop(coll, chunks, category, j) ==
    IF j > Len(chunks) THEN <<>>
    ELSE SnapTokens(QueryEnabledDevices(coll, chunks[j]), category)
             \o CollectLoop(coll, chunks, category, j + 1)

\* collectDeviceTokensByUserIds(userIds, category) when the store does not
\* change while it runs.
collectDeviceTokensByUserIds(coll, userIds, category) ==
    IF Len(userIds) = 0 THEN <<>>
    ELSE Dedupe(CollectLoop(coll, Chunks(userIds), category, 1))

\* Tokens whose device document says enabled: false.
DisabledTokens(coll) ==
    {t \in Tokens : tokenId(t) \in DOMAIN coll /\ coll[tokenId(t)].enabled = FALSE}

-----------------------------------------------------------------------------
(* Device registry *)

\* Mutant: the owner is written only when the document is created.
RegisterWriteKeepingOwner(coll, ts, uid, token, profile, preferences) ==
    MergeSet(coll, tokenId(token),
        [token |-> token,
         userId |-> IF tokenId(token) \in DOMAIN coll
                        /\ "userId" \in DOMAIN coll[tokenId(token)]
                    THEN coll[tokenId(token)].userId ELSE uid,
         role |-> OrElse(profile[1], "member"),
         preferences |-> preferences,
         enabled |-> TRUE,
         platform |-> OrElse(profile[2], "unknown"),
         updatedAt |-> ts,
         createdAt |-> ts])

\* The write of POST /api/register-device, applied at server time ts
RegisterWrite(coll, ts, uid, token, profile, preferences) ==
    MergeSet(coll, tokenId(token),
        [token |-> token,
         userId |-> uid,
         role |-> OrElse(profile[1], "member"),
         preferences |-> preferences,
         enabled |-> TRUE,
         platform |-> OrElse(profile[2], "unknown"),
         updatedAt |-> ts,
         createdAt |-> ts])

\* Mutant: the enabled flag is flipped instead of cleared.
UnregisterWriteFlipping(coll, ts, token) ==
    MergeSet(coll, tokenId(token),
        [enabled |-> (/\ tokenId(token) \in DOMAIN coll
                      /\ ~ coll[tokenId(token)].enabled),
         updatedAt |-> ts])

\* The write of POST /api/unregister-device
UnregisterWrite(coll, ts, token) ==
    MergeSet(coll, tokenId(token),
        [enabled |-> FALSE,
         updatedAt |-> ts])

\* The write of POST /api/update-device-preferences
UpdatePreferencesWrite(coll, ts, token, preferences, enabled) ==
    MergeSet(coll, tokenId(token),
        [preferences |-> preferences,
         enabled |-> (enabled # "false"),
         updatedAt |-> ts])

\* POST /api/register-device
RegisterDevice(uid, token, profile, preferences) ==
    IF token = EmptyToken
    THEN /\ last' = [op |-> "register", status |-> 400]
         /\ UNCHANGED <<devices, clock, offSince>>
    ELSE /\ CanWrite
         /\ devices' = RegisterWrite(devices, ServerTimestamp, uid, token,
                                     profile, preferences)
         /\ clock' = clock + 1
         /\ last' = [op |-> "register", status |-> 200]
         /\ offSince' = offSince \cap DisabledTokens(devices')

\* POST /api/unregister-device (the caller's identity is not used)
UnregisterDevice(token) ==
    IF token = EmptyToken
    THEN /\ last' = [op |-> "unregister", status |-> 400]
         /\ UNCHANGED <<devices, clock, offSince>>
    ELSE /\ CanWrite
         /\ devices' = UnregisterWrite(devices, ServerTimestamp, token)
         /\ clock' = clock + 1
         /\ last' = [op |-> "unregister", status |-> 200]
         /\ offSince' = offSince \cap DisabledTokens(devices')

\* POST /api/update-device-preferences (the caller's identity is not used)
UpdateDevicePreferences(token, preferences, enabled) ==
    IF token = EmptyToken
    THEN /\ last' = [op |-> "update", status |-> 400]
         /\ UNCHANGED <<devices, clock, offSince>>
    ELSE /\ CanWrite
         /\ devices' = UpdatePreferencesWrite(devices, ServerTimestamp, token,
                                              preferences, enabled)
         /\ clock' = clock + 1
         /\ last' = [op |-> "update", status |-> 200]
         /\ offSince' = offSince \cap DisabledTokens(devices')

(* Dispatch: sendToUsers *)

\* The user-id lists handed to sendToUsers: n ids starting at lo and cycling
\* through k values (k = 1 repeats one id, k >= n gives n distinct ids).
Cycle(n, lo, k) == [i \in 1..n |-> lo + ((i - 1) % k)]

ListLengths == {0, 1, ChunkSize + 1, MaxIds}

\* Ids 1 and 2 are the callers'; every other id owns no device.  The last
\* list has the callers' ids in its final chunk only.
UserIdLists ==
    {Cycle(n, lo, k) : n \in ListLengths, lo \in Callers, k \in {2, MaxIds}}
        \cup {Cycle(MaxIds, 3 - MaxIds, MaxIds)}

\* The lists the interleaved dispatch is started with: the empty list, one
\* id, two chunks with ids that repeat across them, and MaxIds distinct ids.
DispatchLists ==
    {<<>>, Cycle(ChunkSize + 1, 1, 2), Cycle(MaxIds, 1, MaxIds)}
        \cup {Cycle(1, lo, 1) : lo \in Callers}

IdleReq ==
    [pc |-> "idle", userIds |-> <<>>, category |-> "", next |-> 0,
     tokens |-> <<>>, lookups |-> <<>>, collected |-> <<>>,
     multicast |-> <<>>, response |-> [successCount |-> 0, failureCount |-> 0],
     result |-> [success |-> 0, failure |-> 0]]

\* Mutant: the guard against an empty token list is missing.
NeverNothingToSend(tokens) == FALSE

\* if (!tokens.length) return { success: 0, failure: 0 }
NothingToSend(tokens) == Len(tokens) = 0

\* return { success: response.successCount, failure: response.failureCount }
SendResult(response) ==
    [success |-> response.successCount, failure |-> response.failureCount]

\* What sendToUsers does once the collector has returned `tokens`: return at
\* once, or issue the one sendEachForMulticast request and wait for it.
AfterCollect(r, tokens) ==
    IF NothingToSend(tokens)
    THEN [r EXCEPT !.pc = "done", !.collected = tokens,
                   !.result = [success |-> 0, failure |-> 0]]
    ELSE [r EXCEPT !.pc = "gateway", !.collected = tokens,
                   !.multicast = Append(r.multicast, tokens)]

\* The call sendToUsers({userIds, category, ...}) as it starts: the collector
\* returns [] at once for an empty list, otherwise it starts its first query.
SendToUsersCalled(userIds, category) ==
    LET r == [IdleReq EXCEPT !.userIds = userIds, !.category = category]
    IN  IF Len(userIds) = 0
        THEN AfterCollect(r, <<>>)
        ELSE [r EXCEPT !.pc = "lookup", !.next = 1]

\* No sendToUsers call is under way.
NoCallUnderWay == req.pc \in {"idle", "done", "failed"}

\* sendToUsers is called on its own, outside any handler.
StartSendToUsers(userIds, category) ==
    /\ NoCallUnderWay
    /\ req' = SendToUsersCalled(userIds, category)
    /\ offSince' = DisabledTokens(devices)
    /\ UNCHANGED <<devices, clock, last, domainVars, job>>

\* A query of collection c has returned to the handler j, which awaited it.
HasRead(j, c) == [j EXCEPT !.reads = Append(j.reads, c)]

\* One query of the collector's loop returns, to the handler that called
\* sendToUsers if one did; after the last one the tokens are deduplicated
\* and sendToUsers goes on.
Lookup ==
    /\ req.pc = "lookup"
    /\ LET chunks == Chunks(req.userIds)
           group == chunks[req.next]
           snap == QueryEnabledDevices(devices, group)
           r == [req EXCEPT !.tokens = req.tokens \o SnapTokens(snap, req.category),
                            !.lookups = Append(req.lookups, group)]
       IN  req' = IF req.next < Len(chunks)
                  THEN [r EXCEPT !.next = req.next + 1]
                  ELSE AfterCollect(r, Dedupe(r.tokens))
    /\ job' = IF job.pc = "sending" THEN HasRead(job, "notification_devices")
              ELSE job
    /\ UNCHANGED <<devices, clock, last, offSince, domainVars>>

\* The gateway answers the multicast request with its two counts.
GatewayRespond(successCount) ==
    /\ req.pc = "gateway"
    /\ LET response == [successCount |-> successCount,
                        failureCount |-> Len(req.collected) - successCount]
       IN  req' = [req EXCEPT !.pc = "done", !.response = response,
                              !.result = SendResult(response)]
    /\ UNCHANGED <<devices, clock, last, offSince, domainVars, job>>

\* The multicast request is rejected (transport or credential error): the
\* exception leaves sendToUsers.
GatewayThrow ==
    /\ req.pc = "gateway"
    /\ req' = [req EXCEPT !.pc = "failed"]
    /\ UNCHANGED <<devices, clock, last, offSince, domainVars, job>>

-----------------------------------------------------------------------------
(* Dates: the local calendar of a JavaScript Date, months counted from 1 *)

IsLeapYear(y) == (y % 4 = 0 /\ y % 100 # 0) \/ y % 400 = 0

DaysInMonth(y, m) ==
    IF m = 2 THEN (IF IsLeapYear(y) THEN 29 ELSE 28)
    ELSE IF m \in {4, 6, 9, 11} THEN 30 ELSE 31

\* new Date(y, m, d) and setDate(d): a month past December and a day outside
\* the month carry into the neighbouring month or year.
RECURSIVE MakeDate(_, _, _)
MakeDate(y, m, d) ==
    IF m > 12 THEN MakeDate(y + 1, m - 12, d)
    ELSE IF d < 1
         THEN LET py == IF m = 1 THEN y - 1 ELSE y
                  pm == IF m = 1 THEN 12 ELSE m - 1
              IN  MakeDate(py, pm, d + DaysInMonth(py, pm))
    ELSE IF d > DaysInMonth(y, m)
         THEN MakeDate(y, m + 1, d - DaysInMonth(y, m))
    ELSE [y |-> y, m |-> m, d |-> d]

\* a < b on two instants [y, m, d, h] of the local clock
Before(a, b) ==
    \/ a.y < b.y
    \/ a.y = b.y /\ a.m < b.m
    \/ a.y = b.y /\ a.m = b.m /\ a.d < b.d
    \/ a.y = b.y /\ a.m = b.m /\ a.d = b.d /\ a.h < b.h

Midnight(date) == [y |-> date.y, m |-> date.m, d |-> date.d, h |-> 0]

\* Strings that the code slices are sequences of characters.
DigitChar(n) == <<"0", "1", "2", "3", "4", "5", "6", "7", "8", "9">>[n + 1]

\* String(n) for n >= 0
RECURSIVE DigitChars(_)
DigitChars(n) ==
    IF n < 10 THEN <<DigitChar(n)>>
    ELSE Append(DigitChars(n \div 10), DigitChar(n % 10))

\* s.padStart(width, ch)
RECURSIVE PadStart(_, _, _)
PadStart(s, width, ch) ==
    IF Len(s) >= width THEN s ELSE PadStart(<<ch>> \o s, width, ch)

\* `${d.getFullYear()}-${String(d.getMonth() + 1).padStart(2, '0')}`
MonthKey(date) ==
    DigitChars(date.y) \o <<"-">> \o PadStart(DigitChars(date.m), 2, "0")

\* The calendar date of toISOString().slice(0, 10)
ISODateString(date) ==
    PadStart(DigitChars(date.y), 4, "0") \o <<"-">>
        \o PadStart(DigitChars(date.m), 2, "0") \o <<"-">>
        \o PadStart(DigitChars(date.d), 2, "0")

\* The UTC calendar date of a local midnight, tz hours east of Greenwich:
\* east of Greenwich local midnight is still the evening before in UTC.
UtcDateOfLocalMidnight(date, tz) ==
    IF 0 - tz < 0 THEN MakeDate(date.y, date.m, date.d - 1) ELSE date

\* Mutant: the date is formatted from its local fields.
LocalDateOfLocalMidnight(date, tz) == date

\* getISODateWithDaysOffset(daysBefore), called at the instant now
getISODateWithDaysOffset(now, tz, daysBefore) ==
    LET date == MakeDate(now.y, now.m, now.d + daysBefore)
    IN  ISODateString(UtcDateOfLocalMidnight(date, tz))

-----------------------------------------------------------------------------
(* The read-only collections *)

\* Ids of the documents of a collection that satisfy Test, in key order.
DocsWhere(coll, Test(_)) == KeysInOrder({k \in DOMAIN coll : Test(coll[k])})

\* users.where('active', '==', true).where('role', '==', role)
ActiveUsersWithRole(coll, role) ==
    LET Test(u) == u.active /\ u.role = role
    IN  DocsWhere(coll, Test)

\* Mutant: the role filter without the active filter.
UsersWithRole(coll, role) ==
    LET Test(u) == u.role = role
    IN  DocsWhere(coll, Test)

\* Mutant: the linked-person filter without the active filter.
UsersLinkedTo(coll, group) ==
    LET Test(u) == u.linkedPersonId \in SeqToSet(group)
    IN  DocsWhere(coll, Test)

\* users.where('active', '==', true).where('linkedPersonId', 'in', group)
ActiveUsersLinkedTo(coll, group) ==
    LET Test(u) == u.active /\ u.linkedPersonId \in SeqToSet(group)
    IN  DocsWhere(coll, Test)

\* schedules.where('month', '==', month).limit(1): zero or one document
ScheduleOfMonth(coll, month) ==
    LET Test(doc) == doc.month = month
        ks == DocsWhere(coll, Test)
    IN  IF ks = <<>> THEN <<>> ELSE <<coll[ks[1]]>>

\* services.where('date', '==', targetDate): the ids, in key order
ServicesOn(coll, targetDate) ==
    LET Test(doc) == doc.date = targetDate
    IN  DocsWhere(coll, Test)

\* array.find(test): the first element that passes, as a list of 0 or 1
FindFirst(s, Test(_)) ==
    LET hits == SelectSeq(s, Test)
    IN  IF hits = <<>> THEN <<>> ELSE <<hits[1]>>

\* A person id that is missing (undefined) where one is read.
Undefined == "<undefined>"

\* !x on a person id: the empty string and undefined are falsy.
Falsy(x) == x \in {"", Undefined}

\* String(x): a string is itself, undefined becomes the text "undefined".
StringOf(x) == IF x = Undefined THEN "undefined" ELSE x

\* [...new Set((personIds || []).map(String).filter(Boolean))]
CleanIds(personIds) ==
    LET NonEmpty(x) == x # ""
    IN  Dedupe(SelectSeq([n \in 1..Len(personIds) |-> StringOf(personIds[n])],
                         NonEmpty))

\* The groups of collectUserIdsByLinkedPersonIds: one query each.
LinkedQueries(personIds) == Chunks(CleanIds(personIds))

\* Mutant: only one group is queried.
LinkedLoopOneQuery(coll, chunks, j) ==
    IF j > Len(chunks) THEN <<>> ELSE ActiveUsersLinkedTo(coll, chunks[j])

\* Loop of collectUserIdsByLinkedPersonIds over its chunks.
RECURSIVE LinkedLoop(_, _, _)
LinkedLoop(coll, chunks, j) ==
    IF j > Len(chunks) THEN <<>>
    ELSE ActiveUsersLinkedTo(coll, chunks[j]) \o LinkedLoop(coll, chunks, j + 1)

\* collectUserIdsByLinkedPersonIds(personIds)
collectUserIdsByLinkedPersonIds(coll, personIds) ==
    IF Len(CleanIds(personIds)) = 0 THEN <<>>
    ELSE Dedupe(LinkedLoop(coll, LinkedQueries(personIds), 1))

-----------------------------------------------------------------------------
(* sendToUsers as the handlers call it *)

\* What a sendToUsers call that is over gave its caller: the tokens
\* collected, whether the gateway was called, whether it threw, and the
\* value returned.
SendOf(r) ==
    [userIds |-> r.userIds, tokens |-> r.collected,
     called |-> r.multicast # <<>>, threw |-> r.pc = "failed",
     result |-> r.result]

\* The job's record of one sendToUsers call, made for service id (0: none).
LogEntry(id, send) ==
    [service |-> id, userIds |-> send.userIds, tokens |-> send.tokens,
     called |-> send.called, threw |-> send.threw, result |-> send.result]

\* A handler has come to j, where it awaits its next read or has answered;
\* if j is at `await sendToUsers(...)` the call is made with the recipients
\* the handler has found, and the handler stays there until the call is
\* over.
GoesOn(j, category) ==
    /\ job' = j
    /\ IF j.pc = "sending"
       THEN /\ NoCallUnderWay
            /\ req' = SendToUsersCalled(j.recipients, category)
            /\ offSince' = DisabledTokens(devices)
       ELSE UNCHANGED <<req, offSince>>
    /\ UNCHANGED <<devices, clock, last, domainVars>>

-----------------------------------------------------------------------------
(* Reminder jobs *)

\* server.js:345 - days before the first of next month
ReminderWindowDays == 7
\* server.js:18 and :383 - REMINDER_MINISTER_DAYS_BEFORE
MinisterDaysBefore == 3
\* server.js:19 and :468 - REMINDER_MUSICIANS_DAYS_BEFORE
MusiciansDaysBefore == 2
\* server.js:20 - WORSHIP_LEADER_POSITION_ID
WorshipLeaderPositionId == "ybW9FNApDIiZrTDH2fiX"

NoDate == [y |-> 0, m |-> 0, d |-> 0, h |-> 0]

NoResponse ==
    [status |-> 0, shape |-> "none", skipped |-> FALSE, reason |-> "",
     period |-> <<>>, checkedServices |-> 0, notifiedServices |-> 0,
     recipients |-> 0, success |-> 0, failure |-> 0]

\* header, caller and request record what the invocation was given: the
\* x-cron-secret header of a reminder job, the authenticated caller and the
\* body of an admin send or an emitted event. earlier is the record of the
\* invocation this one repeats, if it repeats one; the program keeps no
\* such record, it is there for the properties to compare the two.
\* pc is the await the handler stands at: "caller" (the caller's user
\* document), "services", "schedules", "schedule", "users", "ministers",
\* "linked" (a query of collectUserIdsByLinkedPersonIds), "loop" (the first
\* query of an iteration), "sending" (sendToUsers).  recipients is the local
\* variable of that name; pending and found are the chunks still to query
\* and the recipients pushed so far in collectUserIdsByLinkedPersonIds.
IdleJob ==
    [kind |-> "none", pc |-> "idle", header |-> "", caller |-> 0,
     request |-> <<>>, earlier |-> <<>>, now |-> NoDate, targetDate |-> <<>>,
     queue |-> <<>>, i |-> 0, notifiedServices |-> 0, totalRecipients |-> 0,
     totalSuccess |-> 0, totalFailure |-> 0, reads |-> <<>>,
     recipients |-> <<>>, pending |-> <<>>, found |-> <<>>,
     examined |-> <<>>, sent |-> <<>>, response |-> NoResponse]

\* Mutant: without a configured secret every request is let through.
assertCronSecretIfConfigured(header) ==
    config.cronSecret = "" \/ header = config.cronSecret

\* assertCronSecret: the x-cron-secret header against CRON_SECRET
assertCronSecret(header) == ~ (config.cronSecret = "" \/ header # config.cronSecret)

\* res.status(401).send('Cron secret non valido')
Unauthorized(kind) ==
    [IdleJob EXCEPT !.kind = kind, !.pc = "done",
                    !.response = [NoResponse EXCEPT !.status = 401,
                                                    !.shape = "unauthorized"]]

\* new Date(now.getFullYear(), now.getMonth() + 1, 1)
NextMonthStart(now) == Midnight(MakeDate(now.y, now.m + 1, 1))

\* Mutant: setDate(-7), which counts back from the last day of the month
\* before instead of from the date itself.
ReminderStartLiteralDay(nextMonthStart) ==
    Midnight(MakeDate(nextMonthStart.y, nextMonthStart.m, 0 - ReminderWindowDays))

\* reminderStart.setDate(reminderStart.getDate() - 7)
ReminderStart(nextMonthStart) ==
    Midnight(MakeDate(nextMonthStart.y, nextMonthStart.m,
                      nextMonthStart.d - ReminderWindowDays))

\* Mutant: every active user, whatever the role.
MonthlyRecipientsAnyRole(coll) ==
    LET Test(u) == u.active
    IN  DocsWhere(coll, Test)

\* Mutant: a reminder that was sent is remembered and not sent again.
MonthlyRecipientsOnce(coll) ==
    IF job.earlier # <<>> /\ job.earlier[1].sent # <<>> THEN <<>>
    ELSE ActiveUsersWithRole(coll, "root")

\* users.where('active', '==', true).where('role', '==', 'root')
MonthlyRecipients(coll) == ActiveUsersWithRole(coll, "root")

\* res.json({ ok: true, skipped: true, reason })
MonthlySkipped(j, reason) ==
    [j EXCEPT !.pc = "done",
              !.response = [NoResponse EXCEPT
                  !.status = 200, !.shape = "skipped", !.skipped = TRUE,
                  !.reason = reason]]

\* remind-next-month-schedule from the request to its answer or to its
\* first await, the schedules query
MonthlyJob(header, now) ==
    LET started == [IdleJob EXCEPT !.kind = "monthly", !.header = header,
                                   !.now = now]
    IN  IF ~ assertCronSecret(header)
        THEN [Unauthorized("monthly") EXCEPT !.header = header]
        ELSE IF Before(now, ReminderStart(NextMonthStart(now)))
        THEN MonthlySkipped(started, "outside reminder window")
        ELSE [started EXCEPT !.pc = "schedules"]

\* remind-next-month-schedule from the return of sendToUsers on: the
\* exception leaves the handler, or the answer is built from the result.
MonthlyAnswered(j, send) ==
    LET sent == [j EXCEPT !.sent = <<LogEntry(0, send)>>]
    IN  IF send.threw THEN [sent EXCEPT !.pc = "failed"]
        ELSE [sent EXCEPT
                 !.pc = "done",
                 !.response = [NoResponse EXCEPT
                     !.status = 200, !.shape = "month",
                     !.period = MonthKey(NextMonthStart(j.now)),
                     !.recipients = Len(send.userIds),
                     !.success = send.result.success,
                     !.failure = send.result.failure]]

\* POST /api/cron/remind-next-month-schedule is received
RemindNextMonthSchedule(header, now) ==
    /\ job.pc = "idle"
    /\ GoesOn(MonthlyJob(header, now), "reminder")

\* The schedules query of the monthly reminder returns: the job is skipped
\* or goes on to its users query.
MonthlySchedulesRead ==
    /\ job.kind = "monthly"
    /\ job.pc = "schedules"
    /\ LET month == MonthKey(NextMonthStart(job.now))
           scheduleSnap == ScheduleOfMonth(schedules, month)
           read == HasRead(job, "schedules")
       IN  GoesOn(IF scheduleSnap # <<>>
                  THEN MonthlySkipped(read, "schedule already exists")
                  ELSE [read EXCEPT !.pc = "users"],
                  "reminder")

\* The users query of the monthly reminder returns: sendToUsers is called.
MonthlyUsersRead ==
    /\ job.kind = "monthly"
    /\ job.pc = "users"
    /\ GoesOn([HasRead(job, "users") EXCEPT
                  !.pc = "sending", !.recipients = MonthlyRecipients(users)],
              "reminder")

\* The loop variable moves on to the first query of the next iteration;
\* after the last service the summary is sent.
NextService(j) ==
    LET over == [j EXCEPT !.recipients = <<>>, !.pending = <<>>, !.found = <<>>]
    IN  IF j.i < Len(j.queue) THEN [over EXCEPT !.pc = "loop", !.i = j.i + 1]
        ELSE [over EXCEPT
                 !.pc = "done",
                 !.response = [NoResponse EXCEPT
                     !.status = 200, !.shape = "summary", !.period = j.targetDate,
                     !.checkedServices = Len(j.queue),
                     !.notifiedServices = j.notifiedServices,
                     !.recipients = j.totalRecipients,
                     !.success = j.totalSuccess,
                     !.failure = j.totalFailure]]

\* Mutant: the exception of the gateway is swallowed and the loop goes on.
ThrownAndCarriedOn(j) == NextService(j)

\* await sendToUsers(...) throws: no handler catches it, the invocation ends
\* there without an answer of its own.
Thrown(j) == [j EXCEPT !.pc = "failed"]

\* The counters after a sendToUsers call that returned.
Counted(j, send) ==
    [j EXCEPT !.notifiedServices = j.notifiedServices + 1,
              !.totalRecipients = j.totalRecipients + Len(send.userIds),
              !.totalSuccess = j.totalSuccess + send.result.success,
              !.totalFailure = j.totalFailure + send.result.failure]

\* The start of both loop jobs, from the request to the 401 or to the first
\* await, the services query: the secret, the target date.
StartLoopJob(kind, header, now, daysBefore) ==
    IF ~ assertCronSecret(header)
    THEN [Unauthorized(kind) EXCEPT !.header = header]
    ELSE [IdleJob EXCEPT
             !.kind = kind, !.header = header, !.now = now,
             !.targetDate = getISODateWithDaysOffset(now, config.tz, daysBefore),
             !.pc = "services"]

\* The services query of a loop job returns: without a service the job
\* answers at once, otherwise the loop starts at the first document.
ServicesRead ==
    /\ job.pc = "services"
    /\ LET queue == ServicesOn(services, job.targetDate)
           read == [HasRead(job, "services") EXCEPT !.queue = queue]
       IN  GoesOn(IF queue = <<>>
                  THEN [read EXCEPT
                           !.pc = "done",
                           !.response = [NoResponse EXCEPT
                               !.status = 200, !.shape = "empty",
                               !.period = job.targetDate]]
                  ELSE [read EXCEPT !.pc = "loop", !.i = 1],
                  "reminder")

\* service.date.slice(0, 7)
MonthOfService(service) == SubSeq(service.date, 1, Min(7, Len(service.date)))

\* (schedule.services || []).find((s) => s.serviceId === service.id)?.assignments || []
AssignmentsOf(scheduleSnap, id) ==
    IF scheduleSnap = <<>> THEN <<>>
    ELSE LET IsService(entry) == entry.serviceId = id
             found == FindFirst(scheduleSnap[1].services, IsService)
         IN  IF found = <<>> THEN <<>> ELSE found[1].assignments

\* worshipLeader?.personId, "" when there is none
LeadPersonId(assignments) ==
    LET IsLead(a) == a.positionId = WorshipLeaderPositionId
        worshipLeader == FindFirst(assignments, IsLead)
    IN  IF worshipLeader = <<>> THEN "" ELSE worshipLeader[1].personId

\* Mutant: no fallback to the ministers.
NoFallback(recipients) == FALSE

\* if (!recipients.length): the ministers are asked for
NobodyFound(recipients) == Len(recipients) = 0

\* The repertoire reminder with the recipients its schedule gave: it goes
\* on to the ministers query or to sendToUsers.
SongsResolved(j, recipients) ==
    LET r == [j EXCEPT !.recipients = recipients, !.pending = <<>>,
                       !.found = <<>>]
    IN  IF NobodyFound(recipients) THEN [r EXCEPT !.pc = "ministers"]
        ELSE [r EXCEPT !.pc = "sending"]

\* The upcoming-service reminder with the recipients of a service: the
\* service is passed over or sendToUsers is called.
MembersResolved(j, recipients) ==
    LET r == [j EXCEPT !.recipients = recipients, !.pending = <<>>,
                       !.found = <<>>]
    IN  IF Len(recipients) = 0 THEN NextService(r)
        ELSE [r EXCEPT !.pc = "sending"]

\* await collectUserIdsByLinkedPersonIds(...) is over: the handler that made
\* the call goes on from it.
Resolved(j, recipients) ==
    IF j.kind = "songs" THEN SongsResolved(j, recipients)
    ELSE IF j.kind = "members" THEN MembersResolved(j, recipients)
    ELSE [j EXCEPT !.pc = "sending", !.recipients = recipients,
                   !.pending = <<>>, !.found = <<>>]

\* The call collectUserIdsByLinkedPersonIds(personIds) as handler j makes
\* it: it returns [] at once when no id is left, otherwise it starts the
\* query of its first chunk.
LinkedCalled(j, personIds) ==
    IF Len(CleanIds(personIds)) = 0 THEN Resolved(j, <<>>)
    ELSE [j EXCEPT !.pc = "linked", !.pending = LinkedQueries(personIds),
                   !.found = <<>>]

\* Mutant: the loop over the chunks ends after the first.
NoGroupsLeft(pending) == <<>>

\* for (const group of chunks): the chunks after the one just queried
GroupsLeft(pending) == Tail(pending)

\* One query of collectUserIdsByLinkedPersonIds has returned to handler j:
\* its ids are pushed, and after the last chunk the call returns them
\* deduplicated.
LinkedQueried(j, usersColl) ==
    LET read == [HasRead(j, "users") EXCEPT
                    !.found = j.found \o ActiveUsersLinkedTo(usersColl, Head(j.pending)),
                    !.pending = GroupsLeft(j.pending)]
    IN  IF read.pending # <<>> THEN read
        ELSE Resolved(read, Dedupe(read.found))

\* POST /api/cron/remind-service-songs-entry is received
StartRemindServiceSongsEntry(header, now) ==
    /\ job.pc = "idle"
    /\ GoesOn(StartLoopJob("songs", header, now, MinisterDaysBefore), "reminder")

\* !songsSnap.empty
HasSongs(service) == service.songs > 0

\* One iteration of the loop of both jobs from the return of sendToUsers
\* on: the exception leaves the handler, or the counters are added to and
\* the loop goes on.
LoopSent(j, send) ==
    LET sent == [j EXCEPT !.pc = "loop",
                          !.sent = Append(j.sent, LogEntry(j.queue[j.i], send))]
    IN  IF send.threw THEN Thrown(sent)
        ELSE NextService(Counted(sent, send))

\* An iteration of remind-service-songs-entry: the songs query of the
\* service returns; a service with songs is passed over, for one without
\* the schedules query is made.
SongsStep ==
    /\ job.pc = "loop"
    /\ job.kind = "songs"
    /\ LET id == job.queue[job.i]
           looked == [HasRead(job, "songs") EXCEPT
                         !.examined = Append(job.examined, id)]
       IN  GoesOn(IF HasSongs(services[id]) THEN NextService(looked)
                  ELSE [looked EXCEPT !.pc = "schedule"],
                  "reminder")

\* The schedules query of the iteration returns: the users linked to the
\* worship leader are asked for, if the schedule names one.
SongsScheduleRead ==
    /\ job.pc = "schedule"
    /\ job.kind = "songs"
    /\ LET id == job.queue[job.i]
           scheduleSnap == ScheduleOfMonth(schedules, MonthOfService(services[id]))
           personId == LeadPersonId(AssignmentsOf(scheduleSnap, id))
           read == HasRead(job, "schedules")
       IN  GoesOn(IF ~ Falsy(personId) THEN LinkedCalled(read, <<personId>>)
                  ELSE SongsResolved(read, <<>>),
                  "reminder")

\* The ministers query of the iteration returns: sendToUsers is called.
SongsMinistersRead ==
    /\ job.pc = "ministers"
    /\ job.kind = "songs"
    /\ GoesOn([HasRead(job, "users") EXCEPT
                  !.pc = "sending",
                  !.recipients = ActiveUsersWithRole(users, "minister")],
              "reminder")

\* [...new Set(assignments.map((a) => a.personId))]
AssignedPersonIds(assignments) ==
    Dedupe([n \in 1..Len(assignments) |-> assignments[n].personId])

\* POST /api/cron/remind-upcoming-service-members is received
StartRemindUpcomingServiceMembers(header, now) ==
    /\ job.pc = "idle"
    /\ GoesOn(StartLoopJob("members", header, now, MusiciansDaysBefore), "reminder")

\* An iteration of remind-upcoming-service-members: the schedules query of
\* the service returns; a service without schedule is passed over, for the
\* others the users linked to the persons assigned are asked for.
MembersStep ==
    /\ job.pc = "loop"
    /\ job.kind = "members"
    /\ LET id == job.queue[job.i]
           scheduleSnap == ScheduleOfMonth(schedules, MonthOfService(services[id]))
           looked == [HasRead(job, "schedules") EXCEPT
                         !.examined = Append(job.examined, id)]
       IN  GoesOn(IF scheduleSnap = <<>> THEN NextService(looked)
                  ELSE LinkedCalled(looked,
                           AssignedPersonIds(AssignmentsOf(scheduleSnap, id))),
                  "reminder")

-----------------------------------------------------------------------------
(* Admin send and emitted events *)

\* requireRootRole: the caller's user document is there, active and root
requireRootRole(usersColl, uid) ==
    /\ uid \in DOMAIN usersColl
    /\ usersColl[uid].active
    /\ usersColl[uid].role = "root"

\* requireManageRole: the caller is active and root or minister
requireManageRole(usersColl, uid) ==
    /\ uid \in DOMAIN usersColl
    /\ usersColl[uid].active
    /\ usersColl[uid].role \in {"root", "minister"}

\* users.where('active', '==', true)
ActiveUsersOf(coll) ==
    LET Test(u) == u.active
    IN  DocsWhere(coll, Test)

\* Both handlers as the request arrives, after authRequired: the role
\* middleware awaits the caller's user document.
Received(kind, uid, body) ==
    [IdleJob EXCEPT !.kind = kind, !.pc = "caller", !.caller = uid,
                    !.request = body]

\* The handler answers with an error status.
Rejected(j, status, reason) ==
    [j EXCEPT !.pc = "done",
              !.response = [NoResponse EXCEPT !.status = status,
                                              !.shape = "error",
                                              !.reason = reason]]

\* The end of both handlers, from the return of sendToUsers on: the
\* exception leaves the handler, or the response is built from the result.
Dispatched(j, send) ==
    LET sent == [j EXCEPT !.sent = <<LogEntry(0, send)>>]
    IN  IF send.threw THEN [sent EXCEPT !.pc = "failed"]
        ELSE [sent EXCEPT
                 !.pc = "done",
                 !.response = [NoResponse EXCEPT
                     !.status = 200, !.shape = "sent",
                     !.recipients = Len(send.userIds),
                     !.success = send.result.success,
                     !.failure = send.result.failure]]

\* The body of an admin send: "" is a missing field; userIds is the value
\* sent and whether it is an array.
AdminBody(target, role, userIds, title, body, category) ==
    [target |-> target, role |-> role, userIds |-> userIds, title |-> title,
     body |-> body, category |-> category]

AnArray(items) == [isArray |-> TRUE, items |-> items]

NotAnArray == [isArray |-> FALSE, items |-> <<>>]

\* Mutant: the payload check is missing.
AdminPayloadNeverInvalid(body) == FALSE

\* !title || !body || !category
AdminPayloadInvalid(body) ==
    body.title = "" \/ body.body = "" \/ body.category = ""

AdminTargets == {"all", "role", "users"}

\* The recipients of an admin send, by target mode.
AdminRecipients(usersColl, body) ==
    IF body.target = "all" THEN ActiveUsersOf(usersColl)
    ELSE IF body.target = "role"
    THEN ActiveUsersWithRole(usersColl, OrElse(body.role, "member"))
    ELSE IF body.userIds.isArray THEN body.userIds.items ELSE <<>>

\* POST /api/admin/send-notification is received, after authRequired
AdminSendNotification(uid, body) ==
    /\ job.pc = "idle"
    /\ GoesOn(Received("admin", uid, body), body.category)

\* requireRootRole has the caller's user document: the request is refused,
\* or the handler runs up to its answer, to its users query or, for an
\* explicit list, to sendToUsers.
AdminCallerRead ==
    /\ job.kind = "admin"
    /\ job.pc = "caller"
    /\ LET read == HasRead(job, "users")
           body == job.request
       IN  GoesOn(
             IF ~ requireRootRole(users, job.caller)
             THEN Rejected(read, 403, "Permesso admin richiesto")
             ELSE IF AdminPayloadInvalid(body)
             THEN Rejected(read, 400, "Payload non valido")
             ELSE IF body.target \notin AdminTargets
             THEN Rejected(read, 400, "target non valido")
             ELSE IF body.target = "users"
             THEN [read EXCEPT !.pc = "sending",
                               !.recipients = AdminRecipients(users, body)]
             ELSE [read EXCEPT !.pc = "users"],
             body.category)

\* The users query of an admin send to all or to a role returns: sendToUsers
\* is called.
AdminUsersRead ==
    /\ job.kind = "admin"
    /\ job.pc = "users"
    /\ GoesOn([HasRead(job, "users") EXCEPT
                  !.pc = "sending",
                  !.recipients = AdminRecipients(users, job.request)],
              job.request.category)

\* The body of an emitted event: type, data.personId and data.serviceId;
\* "" and 0 are missing fields.
EmitBody(type, personId, serviceId) ==
    [type |-> type, personId |-> personId, serviceId |-> serviceId]

BroadcastTypes ==
    {"announcement_created", "monthly_schedule_created", "catalog_song_created"}

EventTypes == {"assignment_changed", "service_songs_updated"} \cup BroadcastTypes

\* The category of each event type.
EventCategory(type) ==
    IF type = "assignment_changed" THEN "assignment"
    ELSE IF type = "service_songs_updated" THEN "serviceSongs"
    ELSE IF type = "announcement_created" THEN "announcements"
    ELSE IF type = "monthly_schedule_created" THEN "monthlySchedule"
    ELSE "catalog"

\* scheduleSnap.forEach: the assignments of the service in the last schedule
\* document that lists it, [] when none does.
RECURSIVE ScanSchedules(_, _, _, _)
ScanSchedules(coll, keys, serviceId, assignments) ==
    IF keys = <<>> THEN assignments
    ELSE LET IsService(entry) == entry.serviceId = serviceId
             service == FindFirst(coll[Head(keys)].services, IsService)
         IN  ScanSchedules(coll, Tail(keys), serviceId,
                 IF service # <<>> THEN service[1].assignments ELSE assignments)

\* [...new Set(assignments.map((a) => a.personId).filter(Boolean))]
EventPersonIds(assignments) ==
    Dedupe(SelectSeq([n \in 1..Len(assignments) |-> assignments[n].personId],
                     LAMBDA x : ~ Falsy(x)))

\* The persons assigned to the service of a service_songs_updated event.
EventPersons(schedulesColl, body) ==
    EventPersonIds(ScanSchedules(schedulesColl, KeysInOrder(DOMAIN schedulesColl),
                                 body.serviceId, <<>>))

\* The users query of an event: the active users linked to the person of
\* an assignment_changed event, every active user for the broadcasts.
EventUsers(usersColl, body) ==
    IF body.type = "assignment_changed"
    THEN LET Test(u) == u.active /\ u.linkedPersonId = body.personId
         IN  DocsWhere(usersColl, Test)
    ELSE ActiveUsersOf(usersColl)

\* POST /api/events/emit is received, after authRequired
EmitEvent(uid, body) ==
    /\ job.pc = "idle"
    /\ GoesOn(Received("emit", uid, body), EventCategory(body.type))

\* requireManageRole has the caller's user document: the request is
\* refused, or the handler runs up to its answer or to the first query of
\* its event type.
EmitCallerRead ==
    /\ job.kind = "emit"
    /\ job.pc = "caller"
    /\ LET read == HasRead(job, "users")
           body == job.request
       IN  GoesOn(
             IF ~ requireManageRole(users, job.caller)
             THEN Rejected(read, 403,
                           IF job.caller \in DOMAIN users /\ users[job.caller].active
                           THEN "Permesso negato" ELSE "Utente non attivo")
             ELSE IF body.type = ""
             THEN Rejected(read, 400, "type obbligatorio")
             ELSE IF body.type = "assignment_changed" /\ body.personId = ""
             THEN Rejected(read, 400, "personId mancante")
             ELSE IF body.type = "service_songs_updated" /\ body.serviceId = 0
             THEN Rejected(read, 400, "serviceId mancante")
             ELSE IF body.type = "service_songs_updated"
             THEN [read EXCEPT !.pc = "schedules"]
             ELSE IF body.type \in EventTypes
             THEN [read EXCEPT !.pc = "users"]
             ELSE Rejected(read, 400, "type non supportato"),
             EventCategory(body.type))

\* The schedules query of a service_songs_updated event returns: the users
\* linked to the persons assigned to the service are asked for.
EmitSchedulesRead ==
    /\ job.kind = "emit"
    /\ job.pc = "schedules"
    /\ GoesOn(LinkedCalled(HasRead(job, "schedules"),
                           EventPersons(schedules, job.request)),
              EventCategory(job.request.type))

\* The users query of an event returns: sendToUsers is called.
EmitUsersRead ==
    /\ job.kind = "emit"
    /\ job.pc = "users"
    /\ GoesOn([HasRead(job, "users") EXCEPT
                  !.pc = "sending",
                  !.recipients = EventUsers(users, job.request)],
              EventCategory(job.request.type))

\* The category of the notification handler j sends.
CategoryOf(j) ==
    IF j.kind = "emit" THEN EventCategory(j.request.type) ELSE "reminder"

\* A query of collectUserIdsByLinkedPersonIds returns to the handler that
\* made the call.
LinkedUsersRead ==
    /\ job.pc = "linked"
    /\ GoesOn(LinkedQueried(job, users), CategoryOf(job))

\* await sendToUsers(...) is over: the handler that made the call goes on
\* from it.
Resumed(j, send) ==
    IF j.kind = "monthly" THEN MonthlyAnswered(j, send)
    ELSE IF j.kind \in {"songs", "members"} THEN LoopSent(j, send)
    ELSE Dispatched(j, send)

SendToUsersReturns ==
    /\ job.pc = "sending"
    /\ req.pc \in {"done", "failed"}
    /\ job' = Resumed(job, SendOf(req))
    /\ req' = IdleReq
    /\ UNCHANGED <<devices, clock, last, offSince, domainVars>>

-----------------------------------------------------------------------------
(* Specifications *)

NoConfig == [cronSecret |-> "", tz |-> 0]

Init ==
    /\ devices = <<>>
    /\ clock = 0
    /\ last = [op |-> "none", status |-> 0]
    /\ req = IdleReq
    /\ offSince = {}
    /\ config = NoConfig
    /\ users = <<>>
    /\ schedules = <<>>
    /\ services = <<>>
    /\ job = IdleJob

\* The registry alone, with the full range of well-formed request bodies.
Next ==
    \/ \E uid \in Callers, t \in Tokens, pr \in Profiles, p \in PrefInputs :
           RegisterDevice(uid, t, pr, p) /\ UNCHANGED <<req, domainVars, job>>
    \/ \E t \in Tokens :
           UnregisterDevice(t) /\ UNCHANGED <<req, domainVars, job>>
    \/ \E t \in Tokens, p \in PrefInputs, e \in EnabledInputs :
           UpdateDevicePreferences(t, p, e) /\ UNCHANGED <<req, domainVars, job>>

Spec == Init /\ [][Next]_vars

\* One sendToUsers call at a time, interleaved with registry requests.
NextDispatch ==
    \/ \E uid \in Callers, t \in Tokens :
           RegisterDevice(uid, t, <<"", "">>, <<>>)
               /\ UNCHANGED <<req, domainVars, job>>
    \/ \E t \in Tokens :
           UnregisterDevice(t) /\ UNCHANGED <<req, domainVars, job>>
    \/ \E t \in Tokens, e \in {"undefined", "false"} :
           UpdateDevicePreferences(t, ("reminder" :> FALSE), e)
               /\ UNCHANGED <<req, domainVars, job>>
    \/ \E userIds \in DispatchLists, c \in Categories :
           StartSendToUsers(userIds, c)
    \/ Lookup
    \/ \E n \in 0..Cardinality(Tokens) :
           n <= Len(req.collected) /\ GatewayRespond(n)
    \/ GatewayThrow

SpecDispatch == Init /\ [][NextDispatch]_vars

(* The reminder jobs run against a device store that earlier registry
   requests have left behind and against one state of the collections they
   only read. *)

\* Registry requests that came before the job, oldest first.
DeviceHistories ==
    LET Reg(uid, t) == [op |-> "register", uid |-> uid, token |-> t]
        Unreg(t) == [op |-> "unregister", uid |-> 0, token |-> t]
        OptOut(t) == [op |-> "update", uid |-> 0, token |-> t]
    IN  {h \in {<<>>,
                <<Reg(1, 1)>>,
                <<Reg(1, 1), Reg(2, 2)>>,
                <<Reg(1, 1), Reg(2, 2), Unreg(1)>>,
                <<Reg(1, 1), Reg(2, 2), OptOut(2)>>,
                <<Reg(1, 1), Reg(2, 2), Unreg(1), OptOut(2)>>} :
            Len(h) <= MaxWrites}

\* The device store after the requests of a history, applied at times 1, 2, ...
RECURSIVE StoreAfter(_)
StoreAfter(h) ==
    IF h = <<>> THEN <<>>
    ELSE LET before == StoreAfter(SubSeq(h, 1, Len(h) - 1))
             r == h[Len(h)]
         IN  IF r.op = "register"
             THEN RegisterWrite(before, Len(h), r.uid, r.token, <<"", "">>, <<>>)
             ELSE IF r.op = "unregister"
             THEN UnregisterWrite(before, Len(h), r.token)
             ELSE UpdatePreferencesWrite(before, Len(h), r.token,
                                         "reminder" :> FALSE, "undefined")

InitRegistryAfter(h) ==
    /\ devices = StoreAfter(h)
    /\ clock = Len(h)
    /\ last = IF h = <<>> THEN [op |-> "none", status |-> 0]
              ELSE [op |-> h[Len(h)].op, status |-> 200]
    /\ req = IdleReq
    /\ offSince = {}

UserIds == Callers

Roles == {"root", "minister", "member"}

\* The x-cron-secret header of a request; "" is a missing header.
Headers == {"", "k", "x"}

Configs == {NoConfig, [cronSecret |-> "k", tz |-> 0]}

\* Monthly reminder: users of every role, active or not; schedules for none,
\* one or both of the months that follow the months of MonthlyNows.
MonthlyUserDocs ==
    {[active |-> a, role |-> r, linkedPersonId |-> ""] : a \in BOOLEAN, r \in Roles}

ScheduleDoc(y, m, entries) ==
    [month |-> MonthKey([y |-> y, m |-> m]), services |-> entries]

MonthlySchedules ==
    {<<>>,
     (1 :> ScheduleDoc(2024, 3, <<>>)),
     (1 :> ScheduleDoc(2024, 1, <<>>)),
     (1 :> ScheduleDoc(2024, 4, <<>>)) @@ (2 :> ScheduleDoc(2024, 5, <<>>))}

MonthlyMonths == {<<2024, 2>>, <<2023, 12>>, <<2024, 4>>}

MonthlyNows ==
    {[y |-> ym[1], m |-> ym[2], d |-> DaysInMonth(ym[1], ym[2]) - back, h |-> h] :
        ym \in MonthlyMonths, back \in {0, 2, 5, 6, 7, 24, 27}, h \in {0, 23}}

InitMonthly ==
    /\ \E h \in DeviceHistories : InitRegistryAfter(h)
    /\ config \in Configs
    /\ users \in [UserIds -> MonthlyUserDocs]
    /\ schedules \in MonthlySchedules
    /\ services = <<>>
    /\ job = IdleJob

NextMonthly ==
    \/ \E header \in Headers, now \in MonthlyNows :
           RemindNextMonthSchedule(header, now)
    \/ MonthlySchedulesRead
    \/ MonthlyUsersRead
    \/ Lookup
    \/ \E n \in 0..Cardinality(Tokens) :
           n <= Len(req.collected) /\ GatewayRespond(n)
    \/ GatewayThrow
    \/ SendToUsersReturns

SpecMonthly == InitMonthly /\ [][NextMonthly]_vars

(* The two loop jobs: services around the end of February 2024 and the
   turn of the year, schedules of one month with the assignments of the
   services, users linked to the persons assigned. *)

Persons == {"p1", "p2"}

OtherPositionId == "vocals"

Assign(positionId, personId) == [positionId |-> positionId, personId |-> personId]

\* Assignment lists of a service, with at most one worship leader.
AssignmentLists ==
    {<<>>,
     <<Assign(WorshipLeaderPositionId, "p1")>>,
     <<Assign(OtherPositionId, "p1")>>,
     <<Assign(WorshipLeaderPositionId, "")>>,
     <<Assign(OtherPositionId, "p2"), Assign(WorshipLeaderPositionId, "p1")>>,
     <<Assign(OtherPositionId, "p1"), Assign(OtherPositionId, "p2"),
       Assign(OtherPositionId, "p1")>>}

Entry(id, assignments) == [serviceId |-> id, assignments |-> assignments]

\* The services lists of a schedule: service 1 absent or with any of the
\* assignment lists, service 2 absent or led by p2.
ScheduleEntries ==
    {e1 \o e2 :
        e1 \in {<<>>} \cup {<<Entry(1, a)>> : a \in AssignmentLists},
        e2 \in {<<>>, <<Entry(2, <<Assign(WorshipLeaderPositionId, "p2")>>)>>}}

LoopSchedules ==
    {<<>>} \cup {(1 :> ScheduleDoc(2024, m, e)) : m \in {2, 3}, e \in ScheduleEntries}

ServiceDoc(date, songs) ==
    [date |-> ISODateString(date), name |-> "culto", startTime |-> "10:00",
     songs |-> songs]

Day(y, m, d) == [y |-> y, m |-> m, d |-> d]

LoopUserDocs ==
    {[active |-> TRUE, role |-> "minister", linkedPersonId |-> ""],
     [active |-> FALSE, role |-> "minister", linkedPersonId |-> ""],
     [active |-> TRUE, role |-> "minister", linkedPersonId |-> "p1"],
     [active |-> TRUE, role |-> "member", linkedPersonId |-> "p1"],
     [active |-> FALSE, role |-> "member", linkedPersonId |-> "p1"],
     [active |-> TRUE, role |-> "member", linkedPersonId |-> "p2"]}

LoopConfigs ==
    {NoConfig} \cup {[cronSecret |-> "k", tz |-> tz] : tz \in {0 - 5, 0, 1}}

\* Repertoire reminder, the dates: invoked around the end of February and at
\* the end of December, in time zones west and east of Greenwich, with
\* services on the days around the target date, with and without songs.
SongsNows ==
    {[y |-> 2024, m |-> 2, d |-> 26, h |-> 10],
     [y |-> 2024, m |-> 2, d |-> 27, h |-> 1],
     [y |-> 2023, m |-> 12, d |-> 29, h |-> 23]}

SongsServices ==
    {(1 :> ServiceDoc(date, n)) @@ (2 :> ServiceDoc(Day(2024, 2, 29), k)) :
        date \in {Day(2024, 2, 28), Day(2024, 2, 29), Day(2024, 3, 1),
                  Day(2024, 1, 1)},
        n \in {0, 1}, k \in {0, 2}}

InitSongs ==
    /\ \E h \in DeviceHistories : InitRegistryAfter(h)
    /\ config \in LoopConfigs
    /\ users \in {(1 :> u1) @@ (2 :> u2) :
                     u1 \in {[active |-> TRUE, role |-> "minister", linkedPersonId |-> ""],
                             [active |-> TRUE, role |-> "member", linkedPersonId |-> "p1"]},
                     u2 \in {[active |-> TRUE, role |-> "minister", linkedPersonId |-> ""],
                             [active |-> FALSE, role |-> "minister", linkedPersonId |-> ""]}}
    /\ schedules \in {<<>>,
                      (1 :> ScheduleDoc(2024, 2,
                               <<Entry(1, <<Assign(WorshipLeaderPositionId, "p1")>>)>>))}
    /\ services \in SongsServices
    /\ job = IdleJob

NextSongs ==
    \/ \E header \in Headers, now \in SongsNows :
           StartRemindServiceSongsEntry(header, now)
    \/ ServicesRead
    \/ SongsStep
    \/ SongsScheduleRead
    \/ SongsMinistersRead
    \/ LinkedUsersRead
    \/ Lookup
    \/ \E n \in 0..Cardinality(Tokens) :
           n <= Len(req.collected) /\ GatewayRespond(n)
    \/ GatewayThrow
    \/ SendToUsersReturns

SpecSongs == InitSongs /\ [][NextSongs]_vars

\* Repertoire reminder, the recipients: two services without songs on the
\* target date, every schedule and every pair of users.
InitSongsLeads ==
    /\ \E h \in DeviceHistories : InitRegistryAfter(h)
    /\ config = [cronSecret |-> "k", tz |-> 0]
    /\ users \in [UserIds -> LoopUserDocs]
    /\ schedules \in LoopSchedules
    /\ services \in {(1 :> ServiceDoc(Day(2024, 2, 29), 0))
                         @@ (2 :> ServiceDoc(Day(2024, 2, 29), k)) : k \in {0, 2}}
    /\ job = IdleJob

SpecSongsLeads == InitSongsLeads /\ [][NextSongs]_vars

\* Upcoming-service reminder.
MembersNows ==
    {[y |-> 2024, m |-> 2, d |-> 27, h |-> 10],
     [y |-> 2024, m |-> 2, d |-> 28, h |-> 10]}

InitMembers ==
    /\ \E h \in DeviceHistories : Len(h) >= 2 /\ InitRegistryAfter(h)
    /\ config \in {[cronSecret |-> "k", tz |-> tz] : tz \in {0, 1}}
    /\ users \in [UserIds -> LoopUserDocs]
    /\ schedules \in LoopSchedules
    /\ services \in {(1 :> ServiceDoc(date, 0)) @@ (2 :> ServiceDoc(Day(2024, 2, 29), 0)) :
                        date \in {Day(2024, 2, 29), Day(2024, 3, 1)}}
    /\ job = IdleJob

NextMembers ==
    \/ \E header \in Headers, now \in MembersNows :
           StartRemindUpcomingServiceMembers(header, now)
    \/ ServicesRead
    \/ MembersStep
    \/ LinkedUsersRead
    \/ Lookup
    \/ \E n \in 0..Cardinality(Tokens) :
           n <= Len(req.collected) /\ GatewayRespond(n)
    \/ GatewayThrow
    \/ SendToUsersReturns

SpecMembers == InitMembers /\ [][NextMembers]_vars

(* Requests: the registry with missing tokens, admin sends and emitted
   events, against a store in which two users own a device each. *)

UserDoc(active, role, linkedPersonId) ==
    [active |-> active, role |-> role, linkedPersonId |-> linkedPersonId]

RequestUsers ==
    {(1 :> UserDoc(TRUE, "root", "")) @@ (2 :> UserDoc(TRUE, "minister", "p1")),
     (1 :> UserDoc(TRUE, "root", "p2")) @@ (2 :> UserDoc(TRUE, "member", "p1")),
     (1 :> UserDoc(TRUE, "minister", "p1")) @@ (2 :> UserDoc(FALSE, "member", "p2")),
     (1 :> UserDoc(FALSE, "root", "")) @@ (2 :> UserDoc(TRUE, "member", "p2")),
     (1 :> UserDoc(TRUE, "member", "p1")) @@ (2 :> UserDoc(TRUE, "root", "p1"))}

\* Authenticated callers of the two endpoints; 3 has no user document.
RequestCallers == UserIds \cup {3}

\* No schedule; one that assigns p1 twice and p2 to service 1; two schedules
\* that both list service 1; two of which only the first lists it.
RequestSchedules ==
    {<<>>,
     (1 :> ScheduleDoc(2024, 2, <<Entry(1, <<Assign(OtherPositionId, "p1"),
                                            Assign(OtherPositionId, "p2"),
                                            Assign(OtherPositionId, "p1")>>)>>)),
     (1 :> ScheduleDoc(2024, 2, <<Entry(1, <<Assign(OtherPositionId, "p1")>>)>>))
         @@ (2 :> ScheduleDoc(2024, 3, <<Entry(1, <<Assign(OtherPositionId, "p2")>>)>>)),
     (1 :> ScheduleDoc(2024, 2, <<Entry(1, <<Assign(OtherPositionId, "p1"),
                                            Assign(OtherPositionId, "")>>)>>))
         @@ (2 :> ScheduleDoc(2024, 3, <<Entry(2, <<Assign(OtherPositionId, "p2")>>)>>))}

\* ChunkSize + 1 users, the first caller in the first chunk of the
\* collector and the second caller in the second.
AcrossChunks == <<1>> \o [i \in 1..(ChunkSize - 1) |-> i + 2] \o <<2>>

\* Admin sends: every target mode, a missing and an unknown target, each
\* required field missing, and a list that takes two device queries.
AdminBodies ==
    {AdminBody("all", "", NotAnArray, "t", "b", "reminder")}
        \cup {AdminBody("role", r, NotAnArray, "t", "b", "announcements") :
                 r \in {"", "root", "minister"}}
        \cup {AdminBody("users", "", ids, "t", "b", "reminder") :
                 ids \in {NotAnArray, AnArray(<<>>), AnArray(<<1>>),
                          AnArray(<<2, 1, 2>>), AnArray(AcrossChunks)}}
        \cup {AdminBody(t, "", AnArray(<<1>>), "t", "b", "reminder") :
                 t \in {"", "everyone"}}
        \cup {AdminBody("all", "", NotAnArray, "", "b", "reminder"),
              AdminBody("all", "", NotAnArray, "t", "", "reminder"),
              AdminBody("users", "", AnArray(<<1>>), "t", "b", ""),
              AdminBody("everyone", "", NotAnArray, "", "", "")}

\* Events: every type with and without its data, no type, an unknown type.
EmitBodies ==
    {EmitBody("assignment_changed", p, 0) : p \in {"", "p1", "p2"}}
        \cup {EmitBody("service_songs_updated", "", s) : s \in {0, 1, 2}}
        \cup {EmitBody(t, "", 0) : t \in BroadcastTypes}
        \cup {EmitBody("", "p1", 1), EmitBody("service_deleted", "p1", 1)}

InitRequests ==
    /\ \E h \in DeviceHistories : Len(h) >= 2 /\ InitRegistryAfter(h)
    /\ config = NoConfig
    /\ users \in RequestUsers
    /\ schedules \in RequestSchedules
    /\ services = <<>>
    /\ job = IdleJob

NextRequests ==
    \/ \E uid \in Callers, t \in RawTokens :
           RegisterDevice(uid, t, <<"", "">>, <<>>)
               /\ UNCHANGED <<req, domainVars, job>>
    \/ \E t \in RawTokens :
           UnregisterDevice(t) /\ UNCHANGED <<req, domainVars, job>>
    \/ \E t \in RawTokens :
           UpdateDevicePreferences(t, ("reminder" :> FALSE), "undefined")
               /\ UNCHANGED <<req, domainVars, job>>
    \/ \E uid \in RequestCallers, body \in AdminBodies :
           AdminSendNotification(uid, body)
    \/ AdminCallerRead
    \/ AdminUsersRead
    \/ \E uid \in RequestCallers, body \in EmitBodies :
           EmitEvent(uid, body)
    \/ EmitCallerRead
    \/ EmitSchedulesRead
    \/ EmitUsersRead
    \/ LinkedUsersRead
    \/ Lookup
    \/ \E n \in 0..Cardinality(Tokens) :
           n <= Len(req.collected) /\ GatewayRespond(n)
    \/ GatewayThrow
    \/ SendToUsersReturns

SpecRequests == InitRequests /\ [][NextRequests]_vars

(* The three reminder jobs side by side, invoked with and without the
   configured secret on a day on which each of them has something to do. *)

CronNows == {[y |-> 2024, m |-> 2, d |-> 26, h |-> 10]}

InitCron ==
    /\ \E h \in DeviceHistories : Len(h) >= 2 /\ InitRegistryAfter(h)
    /\ config \in Configs
    /\ users \in RequestUsers
    /\ schedules \in {<<>>,
                      (1 :> ScheduleDoc(2024, 2,
                               <<Entry(1, <<Assign(WorshipLeaderPositionId, "p1")>>),
                                 Entry(2, <<Assign(OtherPositionId, "p2"),
                                            Assign(OtherPositionId, "p1")>>)>>)),
                      (1 :> ScheduleDoc(2024, 3, <<>>))}
    /\ services \in {(1 :> ServiceDoc(Day(2024, 2, 29), n))
                         @@ (2 :> ServiceDoc(Day(2024, 2, 28), 0)) : n \in {0, 1}}
    /\ job = IdleJob

NextCron ==
    \/ \E header \in Headers, now \in CronNows :
           RemindNextMonthSchedule(header, now)
    \/ MonthlySchedulesRead
    \/ MonthlyUsersRead
    \/ \E header \in Headers, now \in CronNows :
           StartRemindServiceSongsEntry(header, now)
    \/ ServicesRead
    \/ SongsStep
    \/ SongsScheduleRead
    \/ SongsMinistersRead
    \/ LinkedUsersRead
    \/ \E header \in Headers, now \in CronNows :
           StartRemindUpcomingServiceMembers(header, now)
    \/ MembersStep
    \/ Lookup
    \/ \E n \in 0..Cardinality(Tokens) :
           n <= Len(req.collected) /\ GatewayRespond(n)
    \/ GatewayThrow
    \/ SendToUsersReturns

SpecCron == InitCron /\ [][NextCron]_vars

(* The linked-person resolver on long lists: the upcoming-service reminder
   for a service with up to thirteen assignments. *)

PersonNames ==
    <<"p1", "p2", "p3", "p4", "p5", "p6", "p7", "p8", "p9", "p10", "p11", "p12">>

Reverse(s) == [n \in 1..Len(s) |-> s[Len(s) + 1 - n]]

\* Person-id lists: empty; only missing ids; one full chunk; one id more, in
\* both orders; with repeated, empty and undefined ids; the second chunk
\* first.
PersonIdLists ==
    {<<>>,
     <<"", Undefined>>,
     SubSeq(PersonNames, 1, ChunkSize),
     SubSeq(PersonNames, 1, ChunkSize + 1),
     Reverse(SubSeq(PersonNames, 1, ChunkSize + 1)),
     <<"p11", "", "p1">> \o SubSeq(PersonNames, 1, ChunkSize) \o <<Undefined, "p11">>,
     <<"p12", "p11">> \o SubSeq(PersonNames, 1, ChunkSize)}

LinkedUserDocs ==
    {UserDoc(TRUE, "member", "p1"), UserDoc(TRUE, "member", "p11"),
     UserDoc(FALSE, "member", "p11"), UserDoc(TRUE, "member", "p12"),
     UserDoc(TRUE, "minister", "")}

AssignAll(ids) == [n \in 1..Len(ids) |-> Assign(OtherPositionId, ids[n])]

InitLinked ==
    /\ \E h \in DeviceHistories : Len(h) >= 2 /\ InitRegistryAfter(h)
    /\ config = [cronSecret |-> "k", tz |-> 0]
    /\ users \in [UserIds -> LinkedUserDocs]
    /\ schedules \in {(1 :> ScheduleDoc(2024, 2, <<Entry(1, AssignAll(ids))>>)) :
                         ids \in PersonIdLists}
    /\ services = (1 :> ServiceDoc(Day(2024, 2, 29), 0))
                      @@ (2 :> ServiceDoc(Day(2024, 2, 29), 0))
    /\ job = IdleJob

SpecLinked == InitLinked /\ [][NextMembers]_vars

(* The two loop jobs over three services: up to three services on the
   target date, so that a gateway call can fail after an earlier dispatch
   and before a later service is reached. *)

LoopNows ==
    {[y |-> 2024, m |-> 2, d |-> 26, h |-> 10],
     [y |-> 2024, m |-> 2, d |-> 27, h |-> 10]}

ThreeServiceEntries ==
    <<Entry(1, <<Assign(WorshipLeaderPositionId, "p1")>>),
      Entry(2, <<Assign(WorshipLeaderPositionId, "p2")>>),
      Entry(3, <<Assign(OtherPositionId, "p1"),
                 Assign(WorshipLeaderPositionId, "p2")>>)>>

InitLoopJobs ==
    /\ \E h \in DeviceHistories : Len(h) >= 2 /\ InitRegistryAfter(h)
    /\ config = [cronSecret |-> "k", tz |-> 0]
    /\ users \in [UserIds -> LoopUserDocs]
    /\ schedules \in {<<>>,
                      (1 :> ScheduleDoc(2024, 2, ThreeServiceEntries)),
                      (1 :> ScheduleDoc(2024, 2, Tail(ThreeServiceEntries)))}
    /\ services \in {(1 :> ServiceDoc(Day(2024, 2, 29), 0))
                         @@ (2 :> ServiceDoc(Day(2024, 2, 29), n))
                         @@ (3 :> ServiceDoc(date, 0)) :
                        n \in {0, 1}, date \in {Day(2024, 2, 29), Day(2024, 3, 1)}}
    /\ job = IdleJob

NextLoopJobs ==
    \/ \E header \in Headers, now \in LoopNows :
           StartRemindServiceSongsEntry(header, now)
    \/ ServicesRead
    \/ SongsStep
    \/ SongsScheduleRead
    \/ SongsMinistersRead
    \/ LinkedUsersRead
    \/ \E header \in Headers, now \in LoopNows :
           StartRemindUpcomingServiceMembers(header, now)
    \/ MembersStep
    \/ Lookup
    \/ \E n \in 0..Cardinality(Tokens) :
           n <= Len(req.collected) /\ GatewayRespond(n)
    \/ GatewayThrow
    \/ SendToUsersReturns

SpecLoopJobs == InitLoopJobs /\ [][NextLoopJobs]_vars

(* The registry after a first registration: token 1 is user 1's device when
   the concurrent requests start. *)

InitOwned ==
    /\ \E h \in DeviceHistories : Len(h) >= 1 /\ InitRegistryAfter(h)
    /\ config = NoConfig
    /\ users = <<>>
    /\ schedules = <<>>
    /\ services = <<>>
    /\ job = IdleJob

SpecOwned == InitOwned /\ [][Next]_vars

(* Invocations repeated: each reminder job can be invoked a second time
   with the header and the date of the first, with registry requests, admin
   sends and emitted events around it. *)

ReminderJobs == {"monthly", "songs", "members"}

\* The invocation of a reminder job from the request to its answer or to
\* its first await.
ReminderJobStarted(kind, header, now) ==
    IF kind = "monthly" THEN MonthlyJob(header, now)
    ELSE IF kind = "songs" THEN StartLoopJob("songs", header, now, MinisterDaysBefore)
    ELSE StartLoopJob("members", header, now, MusiciansDaysBefore)

\* The same endpoint is called again once the first invocation is over.
InvokeAgain ==
    /\ job.kind \in ReminderJobs
    /\ job.pc \in {"done", "failed"}
    /\ job.earlier = <<>>
    /\ GoesOn([ReminderJobStarted(job.kind, job.header, job.now)
                  EXCEPT !.earlier = <<job>>],
              "reminder")

AgainNows ==
    {[y |-> 2024, m |-> 2, d |-> 10, h |-> 10],
     [y |-> 2024, m |-> 2, d |-> 26, h |-> 10],
     [y |-> 2024, m |-> 2, d |-> 27, h |-> 10]}

AgainSchedules ==
    {<<>>,
     (1 :> ScheduleDoc(2024, 2,
              <<Entry(1, <<Assign(WorshipLeaderPositionId, "p1")>>),
                Entry(2, <<Assign(OtherPositionId, "p2"),
                           Assign(OtherPositionId, "p1")>>)>>)),
     (1 :> ScheduleDoc(2024, 3, <<>>))}

InitAgain ==
    /\ \E h \in DeviceHistories : Len(h) >= 2 /\ InitRegistryAfter(h)
    /\ config = [cronSecret |-> "k", tz |-> 0]
    /\ users \in RequestUsers
    /\ schedules \in AgainSchedules
    /\ services \in {(1 :> ServiceDoc(Day(2024, 2, 29), n))
                         @@ (2 :> ServiceDoc(Day(2024, 2, 29), 0)) : n \in {0, 1}}
    /\ job = IdleJob

NextAgain ==
    \/ \E uid \in Callers, t \in Tokens :
           RegisterDevice(uid, t, <<"", "">>, <<>>)
               /\ UNCHANGED <<req, domainVars, job>>
    \/ \E t \in Tokens :
           UnregisterDevice(t) /\ UNCHANGED <<req, domainVars, job>>
    \/ \E t \in Tokens :
           UpdateDevicePreferences(t, ("reminder" :> FALSE), "undefined")
               /\ UNCHANGED <<req, domainVars, job>>
    \/ \E header \in {"k", "x"}, now \in AgainNows :
           RemindNextMonthSchedule(header, now)
    \/ MonthlySchedulesRead
    \/ MonthlyUsersRead
    \/ \E header \in {"k", "x"}, now \in AgainNows :
           StartRemindServiceSongsEntry(header, now)
    \/ ServicesRead
    \/ SongsStep
    \/ SongsScheduleRead
    \/ SongsMinistersRead
    \/ LinkedUsersRead
    \/ \E header \in {"k", "x"}, now \in AgainNows :
           StartRemindUpcomingServiceMembers(header, now)
    \/ MembersStep
    \/ InvokeAgain
    \/ \E uid \in RequestCallers, body \in AdminBodies :
           AdminSendNotification(uid, body)
    \/ AdminCallerRead
    \/ AdminUsersRead
    \/ \E uid \in RequestCallers, body \in EmitBodies :
           EmitEvent(uid, body)
    \/ EmitCallerRead
    \/ EmitSchedulesRead
    \/ EmitUsersRead
    \/ Lookup
    \/ \E n \in 0..Cardinality(Tokens) :
           n <= Len(req.collected) /\ GatewayRespond(n)
    \/ GatewayThrow
    \/ SendToUsersReturns

SpecAgain == InitAgain /\ [][NextAgain]_vars

-----------------------------------------------------------------------------
(* Properties *)

NoDuplicates(s) == \A i, j \in 1..Len(s) : s[i] = s[j] => i = j

RECURSIVE Flatten(_)
Flatten(ss) == IF ss = <<>> THEN <<>> ELSE Head(ss) \o Flatten(Tail(ss))

CeilDiv(n, d) == (n + d - 1) \div d

IsPrefix(s, t) == Len(s) <= Len(t) /\ s = SubSeq(t, 1, Len(s))

\* The device document of a token, and whether there is one.
HasDevice(coll, t) == tokenId(t) \in DOMAIN coll
DeviceOf(coll, t) == coll[tokenId(t)]

\* The tokens the collector has produced or sent so far in the current call.
SeenByReq == SeqToSet(req.tokens) \cup SeqToSet(req.collected)
                 \cup UNION {SeqToSet(req.multicast[i]) : i \in 1..Len(req.multicast)}

\* C1 (as amended): a device that was disabled when a sendToUsers call
\* started, and has not been re-enabled since, is not among the tokens that
\* call collects and is in no multicast request of that call.
C1_DisabledSinceStartExcluded == offSince \cap SeenByReq = {}

\* The step that issues a multicast request names no device whose enabled
\* flag is false at that moment.
NoDisabledDeviceInRequest ==
    [][(req.pc = "lookup" /\ req'.pc = "gateway")
          => DisabledTokens(devices) \cap SeqToSet(req'.collected) = {}]_vars

\* C1 (as stated): the tokens of a call exclude every device disabled since
\* before the call started, and a device whose enabled flag is false is in
\* no multicast request.
C1_Original == [](offSince \cap SeenByReq = {}) /\ NoDisabledDeviceInRequest

\* C1 witness: a multicast request is out for a user who also owns a device
\* that was unregistered before the call started; that device is not in it.
C1_Witness ==
    /\ req.pc = "gateway"
    /\ last = [op |-> "unregister", status |-> 200]
    /\ \E t \in offSince :
          /\ "userId" \in DOMAIN DeviceOf(devices, t)
          /\ DeviceOf(devices, t).userId \in SeqToSet(req.userIds)
          /\ PreferenceAllows(DeviceOf(devices, t), req.category)

\* C2: when updatePreferences(t, {catX: false}) is applied to an enabled
\* device registered to a user in U, then collectTokens(U, catX) does not
\* contain t and collectTokens(U, catY) contains t for every catY that is
\* unset in the device's preferences.
C2_OptOutIsPerCategory ==
    [][\A t \in Tokens, catX \in Categories :
          (/\ last'.op = "update"
           /\ HasDevice(devices, t)
           /\ DeviceOf(devices, t).enabled
           /\ "userId" \in DOMAIN DeviceOf(devices, t)
           /\ UpdateDevicePreferences(t, (catX :> FALSE), "undefined"))
          => \A U \in UserIdLists :
                DeviceOf(devices, t).userId \in SeqToSet(U)
                => /\ t \notin SeqToSet(collectDeviceTokensByUserIds(devices', U, catX))
                   /\ \A catY \in Categories :
                         catY \notin DOMAIN DeviceOf(devices', t).preferences
                         => t \in SeqToSet(collectDeviceTokensByUserIds(devices', U, catY))
      ]_vars

\* C2 witness: the last request was an update that left an enabled, owned
\* device with one category opted out and another unset; the collector
\* returns the device for the unset category only.
C2_Witness ==
    /\ last = [op |-> "update", status |-> 200]
    /\ \E t \in Tokens, catX, catY \in Categories :
          /\ HasDevice(devices, t)
          /\ DeviceOf(devices, t).updatedAt = clock
          /\ DeviceOf(devices, t).enabled
          /\ "userId" \in DOMAIN DeviceOf(devices, t)
          /\ DeviceOf(devices, t).preferences = (catX :> FALSE)
          /\ catY # catX
          /\ LET U == <<DeviceOf(devices, t).userId>>
             IN  /\ t \notin SeqToSet(collectDeviceTokensByUserIds(devices, U, catX))
                 /\ t \in SeqToSet(collectDeviceTokensByUserIds(devices, U, catY))

\* The device documents that are enabled, owned by a user of U and not
\* opted out of category c.
EligibleDevices(coll, U, c) ==
    {k \in DOMAIN coll :
        /\ coll[k].enabled
        /\ "userId" \in DOMAIN coll[k]
        /\ coll[k].userId \in SeqToSet(U)
        /\ ~ (c \in DOMAIN coll[k].preferences /\ coll[k].preferences[c] = FALSE)}

\* C3: for every store state, list U and category c, collectTokens(U, c) is
\* exactly the set of tokens of the enabled devices owned by a user of U
\* whose preferences[c] is not false, and it is empty when U is empty or no
\* device passes.
C3_CollectorIsExact ==
    \A U \in UserIdLists, c \in Categories :
        LET got == collectDeviceTokensByUserIds(devices, U, c)
            eligible == EligibleDevices(devices, U, c)
        IN  /\ SeqToSet(got) = {devices[k].token : k \in eligible}
            /\ (Len(U) = 0 \/ eligible = {}) => got = <<>>

\* C3 witness: a list longer than one chunk for which a device is returned,
\* while an enabled device of an owner in the list is held back by its
\* preferences.
C3_Witness ==
    \E U \in UserIdLists, c \in Categories :
        /\ Len(U) > ChunkSize
        /\ collectDeviceTokensByUserIds(devices, U, c) # <<>>
        /\ \E t \in Tokens :
              /\ HasDevice(devices, t)
              /\ DeviceOf(devices, t).enabled
              /\ "userId" \in DOMAIN DeviceOf(devices, t)
              /\ DeviceOf(devices, t).userId \in SeqToSet(U)
              /\ ~ PreferenceAllows(DeviceOf(devices, t), c)

\* C4: a collection over n ids issues ceil(n/10) lookups of at most 10 ids
\* each, which put end to end are the id list (25 ids: 10, 10, 5), and the
\* returned tokens contain no token twice.
C4_ChunkedAndDeduplicated ==
    /\ \A i \in 1..Len(req.lookups) :
          Len(req.lookups[i]) >= 1 /\ Len(req.lookups[i]) <= ChunkSize
    /\ IsPrefix(Flatten(req.lookups), req.userIds)
    /\ req.pc \in {"gateway", "done", "failed"}
          => /\ Len(req.lookups) = CeilDiv(Len(req.userIds), ChunkSize)
             /\ Flatten(req.lookups) = req.userIds
             /\ Len(req.userIds) = 25
                   => [i \in 1..3 |-> Len(req.lookups[i])] = <<10, 10, 5>>
             /\ NoDuplicates(req.collected)
             /\ SeqToSet(req.collected) = SeqToSet(req.tokens)
    /\ \A i \in 1..Len(req.multicast) : NoDuplicates(req.multicast[i])

\* C4 witness: a finished collection of two lookups in which one user's two
\* devices were each returned by both lookups.
C4_Witness ==
    /\ req.pc = "gateway"
    /\ Len(req.lookups) = 2
    /\ Len(req.tokens) = 4
    /\ Len(req.collected) = 2

\* C5: a dispatch that collected no token returns {success: 0, failure: 0}
\* and makes no gateway call; one that collected tokens makes exactly one
\* multicast call, with all of them, and returns that call's counts.
C5_OneCallOrNone ==
    /\ req.pc \in {"idle", "lookup"} => req.multicast = <<>>
    /\ req.pc \in {"gateway", "failed"}
          => req.collected # <<>> /\ req.multicast = <<req.collected>>
    /\ req.pc = "done"
          => IF req.collected = <<>>
             THEN /\ req.multicast = <<>>
                  /\ req.result = [success |-> 0, failure |-> 0]
             ELSE /\ req.multicast = <<req.collected>>
                  /\ req.result.success = req.response.successCount
                  /\ req.result.failure = req.response.failureCount
                  /\ req.result.success + req.result.failure = Len(req.collected)

\* C5 witness: a dispatch returned after one multicast call to two tokens,
\* with the gateway's counts 2 and 0.
C5_Witness ==
    /\ req.pc = "done"
    /\ Len(req.collected) = 2
    /\ req.multicast = <<req.collected>>
    /\ req.result = [success |-> 2, failure |-> 0]

(* Calendar arithmetic for the properties: days counted from 2000-01-01 *)

LeapDaysThrough(y) == (y \div 4) - (y \div 100) + (y \div 400)

DaysBeforeMonth(m) ==
    <<0, 31, 59, 90, 120, 151, 181, 212, 243, 273, 304, 334>>[m]

DayNumber(date) ==
    365 * (date.y - 2000) + (LeapDaysThrough(date.y - 1) - LeapDaysThrough(1999))
        + DaysBeforeMonth(date.m)
        + (IF date.m > 2 /\ IsLeapYear(date.y) THEN 1 ELSE 0)
        + (date.d - 1)

FirstOfNextMonth(now) ==
    IF now.m = 12 THEN [y |-> now.y + 1, m |-> 1, d |-> 1]
    ELSE [y |-> now.y, m |-> now.m + 1, d |-> 1]

\* Whole hours from the instant now to the start of next month.
HoursToNextMonth(now) ==
    24 * DayNumber(FirstOfNextMonth(now)) - (24 * DayNumber(now) + now.h)

MonthlyJobRan == job.kind = "monthly" /\ job.response.status # 401
                     /\ job.pc \in {"done", "failed"}

EarlierThanWindow(now) == HoursToNextMonth(now) > 24 * ReminderWindowDays

\* C6: a monthly reminder invoked more than 7 days before the first of next
\* month answers skipped, 'outside reminder window', having read no
\* collection and called no gateway; invoked within the 7 days it is not
\* skipped for that reason.
C6_ActsOnlyInsideWindow ==
    MonthlyJobRan =>
        IF EarlierThanWindow(job.now)
        THEN /\ job.pc = "done"
             /\ job.response.status = 200
             /\ job.response.skipped
             /\ job.response.reason = "outside reminder window"
             /\ job.reads = <<>>
             /\ job.sent = <<>>
        ELSE job.response.reason # "outside reminder window"

\* C6 witness: invoked 25 days before next month, with no schedule and an
\* active root user who has an enabled device, the job was skipped.
C6_Witness ==
    /\ MonthlyJobRan
    /\ HoursToNextMonth(job.now) = 24 * 25
    /\ job.response.skipped
    /\ schedules = <<>>
    /\ \E t \in Tokens :
          /\ HasDevice(devices, t)
          /\ DeviceOf(devices, t).enabled
          /\ users[DeviceOf(devices, t).userId].active
          /\ users[DeviceOf(devices, t).userId].role = "root"

ScheduleExistsForNextMonth(now) ==
    \E k \in DOMAIN schedules :
        schedules[k].month = MonthKey(FirstOfNextMonth(now))

ActiveRoots == {u \in DOMAIN users : users[u].active /\ users[u].role = "root"}

TokensOwnedBy(owners) ==
    {t \in Tokens : /\ HasDevice(devices, t)
                    /\ "userId" \in DOMAIN DeviceOf(devices, t)
                    /\ DeviceOf(devices, t).userId \in owners}

\* C7: inside the window the monthly reminder dispatches exactly when no
\* schedule exists for next month.  With a schedule it answers skipped and
\* sends nothing; without one it sends once, to exactly the active root
\* users, and to no device of anybody else.
C7_DispatchIffNoSchedule ==
    (MonthlyJobRan /\ ~ EarlierThanWindow(job.now)) =>
        IF ScheduleExistsForNextMonth(job.now)
        THEN /\ job.pc = "done"
             /\ job.response.status = 200
             /\ job.response.skipped
             /\ job.response.reason = "schedule already exists"
             /\ job.sent = <<>>
        ELSE /\ Len(job.sent) = 1
             /\ NoDuplicates(job.sent[1].userIds)
             /\ SeqToSet(job.sent[1].userIds) = ActiveRoots
             /\ SeqToSet(job.sent[1].tokens) \subseteq TokensOwnedBy(ActiveRoots)
             /\ job.sent[1].called <=> job.sent[1].tokens # <<>>
             /\ job.pc = "done"
                   => /\ job.response.status = 200
                      /\ ~ job.response.skipped
                      /\ job.response.recipients = Cardinality(ActiveRoots)

\* C7 witness: three days before next month, no schedule: the reminder went
\* to the device of the active root user and not to the enabled device of an
\* active user with another role.
C7_Witness ==
    /\ MonthlyJobRan
    /\ job.pc = "done"
    /\ HoursToNextMonth(job.now) = 24 * 3
    /\ ~ job.response.skipped
    /\ Len(job.sent) = 1
    /\ job.sent[1].called
    /\ \E t \in Tokens :
          /\ HasDevice(devices, t)
          /\ DeviceOf(devices, t).enabled
          /\ users[DeviceOf(devices, t).userId].active
          /\ users[DeviceOf(devices, t).userId].role # "root"
          /\ t \notin SeqToSet(job.sent[1].tokens)

SongsJobAnswered == job.kind = "songs" /\ job.pc = "done"
                        /\ job.response.status = 200

ServicesDated(date) == {id \in DOMAIN services : services[id].date = date}

SongLess(ids) == {id \in ids : services[id].songs = 0}

ServicesSent == {job.sent[n].service : n \in 1..Len(job.sent)}

\* The calendar day daysBefore days after the day of the instant now.
TodayPlus(now, daysBefore) ==
    ISODateString(MakeDate(now.y, now.m, now.d + daysBefore))

\* C8: when the repertoire reminder has answered, the services it dispatched
\* for are exactly the services dated today + daysBefore that have no song,
\* notifiedServices counts them, and no service of another date was examined.
\* The code formats the local midnight of the target day in UTC, so east of
\* Greenwich it looks at the day before.
C8_NotifiesSongLessServicesOfTargetDay ==
    SongsJobAnswered =>
        LET due == ServicesDated(TodayPlus(job.now, MinisterDaysBefore))
        IN  /\ ServicesSent = SongLess(due)
            /\ job.response.notifiedServices = Cardinality(SongLess(due))
            /\ SeqToSet(job.examined) \subseteq due

\* What the job does guarantee: the same statement about the date it
\* computed, whichever day that is.
SongGatingOnComputedDate ==
    SongsJobAnswered =>
        LET due == ServicesDated(job.targetDate)
        IN  /\ ServicesSent = SongLess(due)
            /\ Len(job.sent) = Cardinality(SongLess(due))
            /\ job.response.notifiedServices = Cardinality(SongLess(due))
            /\ SeqToSet(job.examined) = due
            /\ job.targetDate = TodayPlus(job.now, MinisterDaysBefore)
                   <=> config.tz <= 0

ActiveUsers == {u \in DOMAIN users : users[u].active}

ActiveMinisters == {u \in ActiveUsers : users[u].role = "minister"}

\* The schedule entries of service id in the schedules of its month.
EntriesOf(id) ==
    UNION {{doc.services[n] : n \in {n \in 1..Len(doc.services) :
                                        doc.services[n].serviceId = id}} :
              doc \in {schedules[k] : k \in {k \in DOMAIN schedules :
                          schedules[k].month = SubSeq(services[id].date, 1, 7)}}}

AssignmentsIn(entry) == {entry.assignments[n] : n \in 1..Len(entry.assignments)}

\* The persons assigned to service id, in any position or in one.
PersonsAssigned(id) ==
    {a.personId : a \in UNION {AssignmentsIn(e) : e \in EntriesOf(id)}} \ {""}

LeadsAssigned(id) ==
    {a.personId : a \in {a \in UNION {AssignmentsIn(e) : e \in EntriesOf(id)} :
                            a.positionId = WorshipLeaderPositionId}} \ {""}

ActiveLinkedTo(persons) ==
    {u \in ActiveUsers : users[u].linkedPersonId \in persons}

\* C9: every dispatch of the repertoire reminder goes to exactly the active
\* users linked to the worship leader of the service in the schedule of its
\* month, and to exactly the active ministers when there are none (no
\* schedule, no worship leader assigned, nobody active linked to the leader).
C9_LeadOrMinisters ==
    job.kind = "songs" =>
        \A n \in 1..Len(job.sent) :
            LET linked == ActiveLinkedTo(LeadsAssigned(job.sent[n].service))
            IN  /\ NoDuplicates(job.sent[n].userIds)
                /\ SeqToSet(job.sent[n].userIds) =
                       IF linked # {} THEN linked ELSE ActiveMinisters

\* C9 witness: of two song-less services the first went to the one member
\* linked to its worship leader, not to the active minister, and the second,
\* whose leader has no linked user, went to the active minister.
C9_Witness ==
    /\ SongsJobAnswered
    /\ Len(job.sent) = 2
    /\ job.sent[1].userIds = <<1>>
    /\ users[1].role = "member"
    /\ LeadsAssigned(job.sent[1].service) = {users[1].linkedPersonId}
    /\ job.sent[2].userIds = <<2>>
    /\ ActiveMinisters = {2}
    /\ LeadsAssigned(job.sent[2].service) # {}
    /\ ActiveLinkedTo(LeadsAssigned(job.sent[2].service)) = {}

MembersJob == job.kind = "members" /\ job.response.status # 401

\* The services of the queue the upcoming-service reminder must not skip.
EligibleServices ==
    SelectSeq(job.queue,
        LAMBDA id : EntriesOf(id) # {} /\ ActiveLinkedTo(PersonsAssigned(id)) # {})

\* C10: the upcoming-service reminder looks at the services of the target
\* date; each dispatch goes to exactly the active users linked to a person
\* assigned to the service; services without schedule or recipients cause no
\* dispatch and are not counted; the job fails only on a gateway error and
\* otherwise answers a summary with notifiedServices <= checkedServices.
C10_MembersOfEachService ==
    MembersJob =>
        /\ job.pc # "services"
              => SeqToSet(job.queue) = ServicesDated(job.targetDate)
        /\ \A n \in 1..Len(job.sent) :
              /\ n <= Len(EligibleServices)
              /\ job.sent[n].service = EligibleServices[n]
              /\ NoDuplicates(job.sent[n].userIds)
              /\ SeqToSet(job.sent[n].userIds) =
                     ActiveLinkedTo(PersonsAssigned(job.sent[n].service))
        /\ job.pc = "failed" => job.sent # <<>> /\ job.sent[Len(job.sent)].threw
        /\ job.pc = "done" =>
              /\ Len(job.sent) = Len(EligibleServices)
              /\ job.response.status = 200
              /\ job.response.shape \in {"empty", "summary"}
              /\ job.response.checkedServices = Len(job.queue)
              /\ job.response.notifiedServices = Len(job.sent)
              /\ job.response.notifiedServices <= job.response.checkedServices

\* C10 witness: two services on the target date; the first, to which p1 and
\* p2 are assigned, went to the two users linked to them; the second, which
\* has a schedule for its month but nobody assigned, was skipped.
C10_Witness ==
    /\ MembersJob
    /\ job.pc = "done"
    /\ job.queue = <<1, 2>>
    /\ schedules # <<>>
    /\ PersonsAssigned(1) = {"p1", "p2"}
    /\ PersonsAssigned(2) = {}
    /\ Len(job.sent) = 1
    /\ job.sent[1].userIds = <<1, 2>>
    /\ job.sent[1].called
    /\ job.response.notifiedServices = 1
    /\ job.response.checkedServices = 2

-----------------------------------------------------------------------------
(* Properties of the registry writes *)

\* C11: a registration of token t by caller uid leaves the record keyed by
\* tokenId(t) with the token, enabled = true, uid as owner and updatedAt at
\* the time of the call, and a createdAt the record already had is kept.
\* The code sends createdAt: serverTimestamp() in every registration, so the
\* second registration of a token overwrites it.
C11_CreatedAtKeptAcrossRegistrations ==
    [][\A uid \in Callers, t \in Tokens, pr \in Profiles, p \in PrefInputs :
          (last'.op = "register" /\ RegisterDevice(uid, t, pr, p))
          => /\ HasDevice(devices', t)
             /\ DeviceOf(devices', t).token = t
             /\ DeviceOf(devices', t).enabled
             /\ DeviceOf(devices', t).userId = uid
             /\ DeviceOf(devices', t).updatedAt = clock'
             /\ (HasDevice(devices, t) /\ "createdAt" \in DOMAIN DeviceOf(devices, t))
                   => DeviceOf(devices', t).createdAt = DeviceOf(devices, t).createdAt
      ]_vars

\* What a registration does guarantee: the same upsert, with both
\* timestamps set to the time of the call, and every other record untouched.
RegisterStampsBothTimes ==
    [][\A uid \in Callers, t \in Tokens, pr \in Profiles, p \in PrefInputs :
          (last'.op = "register" /\ RegisterDevice(uid, t, pr, p))
          => /\ DOMAIN devices' = DOMAIN devices \cup {tokenId(t)}
             /\ DeviceOf(devices', t).token = t
             /\ DeviceOf(devices', t).enabled
             /\ DeviceOf(devices', t).userId = uid
             /\ DeviceOf(devices', t).updatedAt = clock'
             /\ DeviceOf(devices', t).createdAt = clock'
             /\ clock' > clock
             /\ \A k \in DOMAIN devices \ {tokenId(t)} : devices'[k] = devices[k]
      ]_vars

\* C12: unregistering a token that has no device record reports success and
\* leaves the device store as it was.  The code upserts, so the call creates
\* a record for the token.
C12_UnregisterUnknownIsNoOp ==
    [][\A t \in Tokens :
          (last'.op = "unregister" /\ UnregisterDevice(t) /\ ~ HasDevice(devices, t))
          => last'.status = 200 /\ devices' = devices
      ]_vars

\* What the call does: it reports success and creates a record that holds
\* the flag and the time only, neither the token nor an owner.
UnregisterUnknownCreatesStub ==
    [][\A t \in Tokens :
          (last'.op = "unregister" /\ UnregisterDevice(t) /\ ~ HasDevice(devices, t))
          => /\ last'.status = 200
             /\ DOMAIN devices' = DOMAIN devices \cup {tokenId(t)}
             /\ DeviceOf(devices', t) = [enabled |-> FALSE, updatedAt |-> clock']
             /\ \A k \in DOMAIN devices : devices'[k] = devices[k]
      ]_vars

\* C13: after updatePreferences(t, P, e) the stored preference map of t is
\* exactly P, and the stored enabled flag is false when e is false and true
\* otherwise, also when e is omitted.  The store merges a non-empty map into
\* the stored one, so an earlier opt-out that P does not mention survives.
C13_PreferencesReplaced ==
    [][\A t \in Tokens, P \in PrefInputs, e \in EnabledInputs :
          (last'.op = "update" /\ UpdateDevicePreferences(t, P, e))
          => /\ DeviceOf(devices', t).preferences = P
             /\ DeviceOf(devices', t).enabled = (e # "false")
      ]_vars

\* The preference map the record of t held, {} when it held none.
StoredPreferences(coll, t) ==
    IF HasDevice(coll, t) /\ "preferences" \in DOMAIN DeviceOf(coll, t)
    THEN DeviceOf(coll, t).preferences ELSE <<>>

\* What the call does guarantee: every category of P has the value P gives
\* it, every other stored category keeps its value unless P is empty, an
\* empty P clears the map, and the enabled flag is as claimed.
PreferencesMergedByCategory ==
    [][\A t \in Tokens, P \in PrefInputs, e \in EnabledInputs :
          (last'.op = "update" /\ UpdateDevicePreferences(t, P, e))
          => LET old == StoredPreferences(devices, t)
                 new == DeviceOf(devices', t).preferences
             IN  /\ DOMAIN new = IF P = <<>> THEN {} ELSE DOMAIN P \cup DOMAIN old
                 /\ \A c \in DOMAIN new : new[c] = IF c \in DOMAIN P THEN P[c] ELSE old[c]
                 /\ DeviceOf(devices', t).enabled = (e # "false")
                 /\ DeviceOf(devices', t).updatedAt = clock'
      ]_vars

StateFields == {"token", "userId", "role", "enabled", "preferences", "platform"}

\* The stored device state: every record without its two timestamps.
StoredState(coll) ==
    [k \in DOMAIN coll |->
        [f \in DOMAIN coll[k] \cap StateFields |-> coll[k][f]]]

\* C14: register, unregister and update-preferences are idempotent: from
\* any store state, the same call with the same arguments applied twice in a
\* row, at two consecutive server times, leaves the same stored device state
\* (token, owner, role, enabled, preferences, platform of every record) as
\* applied once.
C14_SameCallTwiceIsOnce ==
    /\ \A uid \in Callers, t \in Tokens, pr \in Profiles, p \in PrefInputs :
          LET once == RegisterWrite(devices, clock + 1, uid, t, pr, p)
              twice == RegisterWrite(once, clock + 2, uid, t, pr, p)
          IN  StoredState(twice) = StoredState(once)
    /\ \A t \in Tokens :
          LET once == UnregisterWrite(devices, clock + 1, t)
              twice == UnregisterWrite(once, clock + 2, t)
          IN  StoredState(twice) = StoredState(once)
    /\ \A t \in Tokens, p \in PrefInputs, e \in EnabledInputs :
          LET once == UpdatePreferencesWrite(devices, clock + 1, t, p, e)
              twice == UpdatePreferencesWrite(once, clock + 2, t, p, e)
          IN  StoredState(twice) = StoredState(once)

\* C14 witness: an update has just merged an opt-out into a map that held
\* another one; the same update applied again changes a timestamp and
\* nothing of the stored state.
C14_Witness ==
    /\ last = [op |-> "update", status |-> 200]
    /\ clock < MaxWrites
    /\ \E t \in Tokens :
          /\ HasDevice(devices, t)
          /\ DeviceOf(devices, t).updatedAt = clock
          /\ DeviceOf(devices, t).enabled
          /\ DeviceOf(devices, t).preferences
                 = ("reminder" :> FALSE) @@ ("announcements" :> FALSE)
          /\ LET again == UpdatePreferencesWrite(devices, clock + 1, t,
                              "announcements" :> FALSE, "undefined")
             IN  /\ again # devices
                 /\ StoredState(again) = StoredState(devices)

-----------------------------------------------------------------------------
(* Properties of the request handlers *)

\* An admin send that lacks a required field or names no known target mode.
AdminRequestInvalid(body) ==
    \/ body.title = ""
    \/ body.body = ""
    \/ body.category = ""
    \/ body.target \notin {"all", "role", "users"}

\* An event that lacks its type or the data its type needs, or whose type is
\* not one of the five known kinds.
EmitRequestInvalid(body) ==
    \/ body.type = ""
    \/ body.type = "assignment_changed" /\ body.personId = ""
    \/ body.type = "service_songs_updated" /\ body.serviceId = 0
    \/ body.type \notin {"assignment_changed", "service_songs_updated",
                         "announcement_created", "monthly_schedule_created",
                         "catalog_song_created"}

\* An invalid request of a caller the role middleware admits has come to
\* the handler: the caller's user document has been read.
InvalidRequestAnswered ==
    /\ job.pc # "caller"
    /\ \/ /\ job.kind = "admin"
          /\ AdminRequestInvalid(job.request)
          /\ requireRootRole(users, job.caller)
       \/ /\ job.kind = "emit"
          /\ EmitRequestInvalid(job.request)
          /\ requireManageRole(users, job.caller)

\* C15: a request with a missing required field (token of the three registry
\* calls; title, body or category of an admin send; type or event data of an
\* emit), an unknown event type or an unknown target mode is answered with
\* status 400, and nothing else happens: the device store and its clock are
\* as before, nothing but the caller's own user document has been read and
\* no gateway call is made.
C15_RejectedRequestsChangeNothing ==
    /\ [](InvalidRequestAnswered
             => /\ job.pc = "done"
                /\ job.response.status = 400
                /\ job.reads = <<"users">>
                /\ job.sent = <<>>)
    /\ [][/\ (job.pc = "caller" /\ job'.response.status = 400)
             => devices' = devices /\ clock' = clock /\ req' = req
          /\ \A uid \in Callers :
                (last'.status = 400 /\ job' = job /\ req' = req
                    /\ RegisterDevice(uid, EmptyToken, <<"", "">>, <<>>))
                => /\ last' = [op |-> "register", status |-> 400]
                   /\ devices' = devices /\ clock' = clock
          /\ (last'.status = 400 /\ job' = job /\ req' = req
                 /\ UnregisterDevice(EmptyToken))
                => /\ last' = [op |-> "unregister", status |-> 400]
                   /\ devices' = devices /\ clock' = clock
          /\ (last'.status = 400 /\ job' = job /\ req' = req
                 /\ UpdateDevicePreferences(EmptyToken, "reminder" :> FALSE, "undefined"))
                => /\ last' = [op |-> "update", status |-> 400]
                   /\ devices' = devices /\ clock' = clock
         ]_vars

\* C15 witness: a registration without token was rejected, and then an event
\* of an unknown type, emitted by an active manager, was answered 400 while
\* an active user owns an enabled device a dispatch would have reached.
C15_Witness ==
    /\ last = [op |-> "register", status |-> 400]
    /\ job.kind = "emit"
    /\ job.request.type = "service_deleted"
    /\ requireManageRole(users, job.caller)
    /\ job.response.status = 400
    /\ job.response.reason = "type non supportato"
    /\ \E t \in Tokens :
          /\ HasDevice(devices, t)
          /\ DeviceOf(devices, t).enabled
          /\ users[DeviceOf(devices, t).userId].active

CronKinds == {"monthly", "songs", "members"}

\* The secret the job was invoked with is missing or wrong, or none is
\* configured.
SecretRefused == config.cronSecret = "" \/ job.header # config.cronSecret

\* C16: a reminder job invoked with a missing or non-matching secret, or
\* with any secret when none is configured, answers 401 and does nothing
\* else: it has queried no collection, looked at no service and made no
\* gateway call; with the configured secret it is not refused.
C16_NoSecretNoWork ==
    job.kind \in CronKinds =>
        IF SecretRefused
        THEN /\ job.pc = "done"
             /\ job.response.status = 401
             /\ job.reads = <<>>
             /\ job.queue = <<>>
             /\ job.examined = <<>>
             /\ job.sent = <<>>
        ELSE job.response.status # 401

\* C16 witness: the members reminder was refused for a wrong secret on a day
\* on which a service is due, its schedule assigns p1, and an active user
\* linked to p1 owns an enabled device.
C16_Witness ==
    /\ job.kind = "members"
    /\ config.cronSecret = "k"
    /\ job.header = "x"
    /\ job.response.status = 401
    /\ ServicesDated(TodayPlus([y |-> 2024, m |-> 2, d |-> 26], MusiciansDaysBefore)) = {2}
    /\ "p1" \in PersonsAssigned(2)
    /\ \E t \in Tokens :
          /\ HasDevice(devices, t)
          /\ DeviceOf(devices, t).enabled
          /\ DeviceOf(devices, t).userId \in ActiveLinkedTo({"p1"})

RequestKinds == {"admin", "emit"}

\* C17: whatever the targeting mode (all, by role, explicit list, by linked
\* person, by event type), the recipients handed to the token collector name
\* no user twice, and the response counts each recipient once.  The explicit
\* list of an admin send is used as it comes, duplicates included.
C17_RecipientsAreDistinct ==
    job.kind \in RequestKinds =>
        \A n \in 1..Len(job.sent) :
            /\ NoDuplicates(job.sent[n].userIds)
            /\ job.pc = "done"
                  => job.response.recipients
                         = Cardinality(SeqToSet(job.sent[n].userIds))

\* What the resolver does guarantee: no user twice in every mode but the
\* explicit list, which is passed on verbatim, and a count that is the
\* length of the list passed on.
RecipientsDistinctUnlessListed ==
    job.kind \in RequestKinds =>
        \A n \in 1..Len(job.sent) :
            /\ (job.kind = "admin" /\ job.request.target = "users")
                  => job.sent[n].userIds = job.request.userIds.items
            /\ ~ (job.kind = "admin" /\ job.request.target = "users")
                  => NoDuplicates(job.sent[n].userIds)
            /\ NoDuplicates(job.sent[n].tokens)
            /\ job.pc = "done"
                  => job.response.recipients = Len(job.sent[n].userIds)

\* The person ids of a list as the resolver takes them: as strings, the
\* empty ones left out (a missing id reads "undefined").
IdsOf(ids) == {StringOf(ids[n]) : n \in 1..Len(ids)} \ {""}

\* The person ids of the assignments of service id, as they are stored.
AssignedIdList(id) ==
    LET assignments == AssignmentsOf(<<schedules[1]>>, id)
    IN  [n \in 1..Len(assignments) |-> assignments[n].personId]

\* C18: for every list of person ids the resolver returns exactly the active
\* users whose linkedPersonId is one of its ids, each once; it issues one
\* query per chunk of at most 10 distinct non-empty ids, no id in two
\* queries; the result is the union of the query results, the same for the
\* list in reverse order and for the queries answered in reverse order; and
\* the upcoming-service reminder hands exactly that result to sendToUsers.
C18_LinkedResolutionIsAUnion ==
    /\ \A ids \in PersonIdLists :
          LET got == collectUserIdsByLinkedPersonIds(users, ids)
              queries == LinkedQueries(ids)
          IN  /\ SeqToSet(got) = ActiveLinkedTo(IdsOf(ids))
              /\ NoDuplicates(got)
              /\ Len(queries) = CeilDiv(Cardinality(IdsOf(ids)), ChunkSize)
              /\ \A q \in 1..Len(queries) :
                    Len(queries[q]) >= 1 /\ Len(queries[q]) <= ChunkSize
              /\ NoDuplicates(Flatten(queries))
              /\ SeqToSet(Flatten(queries)) = IdsOf(ids)
              /\ SeqToSet(got) =
                     UNION {ActiveLinkedTo(SeqToSet(queries[q])) : q \in 1..Len(queries)}
              /\ SeqToSet(collectUserIdsByLinkedPersonIds(users, Reverse(ids)))
                     = SeqToSet(got)
              /\ SeqToSet(LinkedLoop(users, Reverse(queries), 1)) = SeqToSet(got)
    /\ job.kind = "members" =>
          \A n \in 1..Len(job.sent) :
              SeqToSet(job.sent[n].userIds)
                  = ActiveLinkedTo(IdsOf(AssignedIdList(job.sent[n].service)))

\* C18 witness: the reminder of a service with more than 10 distinct persons
\* assigned went to two users: user 2, linked to a person of the first
\* query, and then user 1, linked to a person of the second.
C18_Witness ==
    /\ job.kind = "members"
    /\ job.pc = "done"
    /\ Len(job.sent) = 1
    /\ job.sent[1].userIds = <<2, 1>>
    /\ Len(LinkedQueries(AssignedIdList(job.sent[1].service))) = 2
    /\ users[1].linkedPersonId
           \in SeqToSet(LinkedQueries(AssignedIdList(job.sent[1].service))[2])
    /\ users[2].linkedPersonId
           \in SeqToSet(LinkedQueries(AssignedIdList(job.sent[1].service))[1])

-----------------------------------------------------------------------------
(* C19 *)

LoopKinds == {"songs", "members"}

\* The services of the invocation for which sendToUsers was called.
ServicesDispatched == [n \in 1..Len(job.sent) |-> job.sent[n].service]

\* The gateway log of one invocation is in order: one entry per service,
\* each for a service the loop has looked at, and nothing after a throw.
GatewayLogInOrder ==
    /\ NoDuplicates(ServicesDispatched)
    /\ SeqToSet(ServicesDispatched) \subseteq SeqToSet(job.examined)
    /\ NoDuplicates(job.examined)
    /\ \A n \in 1..Len(job.sent) : job.sent[n].threw => n = Len(job.sent)
    /\ \A n \in 1..Len(job.sent) : job.sent[n].threw => job.sent[n].called

\* A throw of the gateway ends the invocation without an answer, at the
\* service it was thrown for; an invocation that ends otherwise answers.
FailureEndsInvocation ==
    /\ (job.sent # <<>> /\ job.sent[Len(job.sent)].threw)
           <=> job.pc = "failed"
    /\ job.pc = "failed"
           => /\ job.response = NoResponse
              /\ job.sent[Len(job.sent)].service = job.queue[job.i]
              /\ job.examined = SubSeq(job.queue, 1, job.i)
              /\ job.notifiedServices = Len(job.sent) - 1
    /\ job.pc = "done" => job.response.status \in {200, 401}

\* C19: within one invocation of a reminder job the gateway is called at
\* most once for a service (no call is repeated); when a call fails the
\* invocation ends there, with no answer of its own and with no later
\* service looked at or dispatched; and what was dispatched before stays
\* dispatched: the log of a running invocation only grows, by one call at
\* most per step, and the log of a failed one never changes.
C19_FailureStopsTheJob ==
    /\ [](job.kind \in LoopKinds
             => /\ GatewayLogInOrder
                /\ FailureEndsInvocation
                /\ Len(req.multicast) <= 1)
    /\ [][/\ job.pc = "failed" => job' = job
          /\ (job.kind \in LoopKinds /\ job.pc \notin {"done", "failed"})
                => /\ IsPrefix(job.sent, job'.sent)
                   /\ Len(job'.sent) <= Len(job.sent) + 1
                   /\ job'.notifiedServices >= job.notifiedServices]_vars

\* A job over three services whose first dispatch went through and whose
\* second met a throwing gateway, with the third service still to come.
C19_Witness ==
    /\ job.kind \in LoopKinds
    /\ job.pc = "failed"
    /\ Len(job.queue) = 3
    /\ Len(job.sent) = 2
    /\ job.sent[1].called /\ ~ job.sent[1].threw
    /\ job.sent[1].result.success > 0
    /\ job.sent[2].threw
    /\ job.i = 2
    /\ job.notifiedServices = 1

-----------------------------------------------------------------------------
(* C20 *)

\* The records of the store that carry raw token t.
RecordKeysOf(coll, t) ==
    {k \in DOMAIN coll : "token" \in DOMAIN coll[k] /\ coll[k].token = t}

\* The owner of the record of raw token t: one user, or none.
OwnerOf(coll, t) ==
    IF tokenId(t) \in DOMAIN coll /\ "userId" \in DOMAIN coll[tokenId(t)]
    THEN {coll[tokenId(t)].userId}
    ELSE {}

\* The step wrote the record of raw token t.
Wrote(t) ==
    /\ clock' = clock + 1
    /\ tokenId(t) \in DOMAIN devices'
    /\ devices'[tokenId(t)].updatedAt = clock'

\* A step of the store is a registration of raw token t by uid.
RegistersFor(uid, t) ==
    /\ last'.op = "register"
    /\ Wrote(t)
    /\ \E pr \in Profiles, p \in PrefInputs : RegisterDevice(uid, t, pr, p)

\* C20: however register, unregister and update-preferences requests on
\* the same raw token are ordered, by one user or several, the store has at
\* most one record of the token, under the key that is the token's hash
\* (and no record under any other key), and the owner of that record is the
\* user of the registration applied last: a registration makes its caller
\* the owner, and no other request changes the owner.
C20_OneRecordLastRegistrationOwns ==
    /\ [](/\ DOMAIN devices \subseteq DeviceKeys
          /\ \A t \in Tokens :
                /\ RecordKeysOf(devices, t) \subseteq {tokenId(t)}
                /\ Cardinality(RecordKeysOf(devices, t)) <= 1)
    /\ [][\A t \in Tokens :
             /\ \A uid \in Callers :
                    RegistersFor(uid, t) => OwnerOf(devices', t) = {uid}
             /\ (~ \E uid \in Callers : RegistersFor(uid, t))
                    => OwnerOf(devices', t) = OwnerOf(devices, t)]_vars

\* Token 1, user 1's device at the start, after two more writes of which
\* the last is a registration by user 2 (both left an entry in the merged
\* preferences): one record, under the token's hash, owned by user 2.
C20_Witness ==
    /\ clock = 3
    /\ RecordKeysOf(devices, 1) = {tokenId(1)}
    /\ DOMAIN devices = {tokenId(1)}
    /\ OwnerOf(devices, 1) = {2}
    /\ last.op = "register"
    /\ devices[tokenId(1)].createdAt = 3
    /\ devices[tokenId(1)].updatedAt = 3
    /\ \E c \in Categories \ {"reminder"} :
           devices[tokenId(1)].preferences = ("reminder" :> FALSE) @@ (c :> FALSE)

-----------------------------------------------------------------------------
(* C21 *)

NotifyingKinds == CronKinds \cup RequestKinds

\* What an invocation decided: its answer but for the gateway's counts.
DecisionOf(j) ==
    [pc |-> j.pc, status |-> j.response.status, shape |-> j.response.shape,
     skipped |-> j.response.skipped, reason |-> j.response.reason,
     period |-> j.response.period,
     checkedServices |-> j.response.checkedServices,
     notifiedServices |-> j.response.notifiedServices,
     recipients |-> j.response.recipients]

\* The service and the recipients of each sendToUsers call of an invocation.
RecipientsOf(j) ==
    [n \in 1..Len(j.sent) |->
        [service |-> j.sent[n].service, userIds |-> j.sent[n].userIds]]

\* The invocation repeats the earlier one as far as both have come: same
\* header and date, same target date, the same services once it has read
\* them, same recipients call by call, and the same answer once both have
\* answered.
RepeatsEarlier(j, e) ==
    /\ j.kind = e.kind /\ j.header = e.header /\ j.now = e.now
    /\ j.targetDate = e.targetDate
    /\ j.pc # "services" => j.queue = e.queue
    /\ \/ IsPrefix(j.examined, e.examined)
       \/ IsPrefix(e.examined, j.examined)
    /\ \/ IsPrefix(RecipientsOf(j), RecipientsOf(e))
       \/ IsPrefix(RecipientsOf(e), RecipientsOf(j))
    /\ (j.pc = "done" /\ e.pc = "done")
           => /\ DecisionOf(j) = DecisionOf(e)
              /\ RecipientsOf(j) = RecipientsOf(e)
              /\ j.examined = e.examined

\* C21: a step of a reminder job, of an admin send or of an emitted event,
\* the steps of their sendToUsers calls included, leaves users, notification_devices, schedules and services as they were
\* (only registry requests change a collection, and only the devices); and
\* a reminder job invoked again with the same header and date, the domain
\* collections being as they were, takes the same decision and names the
\* same recipients as the first invocation, whatever the gateway answered
\* and whatever was registered in between.
C21_NothingStoredSameDecisionAgain ==
    /\ [](job.earlier # <<>> => RepeatsEarlier(job, job.earlier[1]))
    /\ [][/\ job' # job => job'.kind \in NotifyingKinds
          /\ (job' # job \/ req' # req)
                => UNCHANGED <<users, devices, schedules, services>>]_vars

\* A monthly reminder sent twice: the second invocation finds the reminder
\* as due as the first did and sends it to the same users.
C21_Witness ==
    /\ job.kind = "monthly"
    /\ job.pc = "done"
    /\ job.earlier # <<>>
    /\ job.earlier[1].pc = "done"
    /\ job.response.shape = "month"
    /\ job.response.recipients > 0
    /\ job.sent # <<>> /\ job.sent[1].called
    /\ job.earlier[1].sent # <<>> /\ job.earlier[1].sent[1].called
    /\ RecipientsOf(job) = RecipientsOf(job.earlier[1])

-----------------------------------------------------------------------------
(* C22 *)

\* The lists of users the collector is asked about.
OwnerLists == {<<1>>, <<2>>, <<1, 2>>, <<2, 1>>}

\* The tokens the collector returns for a list of users and a category.
Collected(coll, userIds, category) ==
    SeqToSet(collectDeviceTokensByUserIds(coll, userIds, category))

\* Raw token t has a record that no registration wrote: it carries no
\* token and no owner.
IsStub(coll, t) ==
    /\ tokenId(t) \in DOMAIN coll
    /\ "token" \notin DOMAIN coll[tokenId(t)]
    /\ "userId" \notin DOMAIN coll[tokenId(t)]

\* C22: whatever register, unregister and update-preferences requests were
\* applied, a token the collector returns for a list of users was last
\* registered by one of them. Step by step: right after user uid registers
\* token t, t is returned for the lists that name uid and for no other; a
\* request that is not a registration of t never makes t come back for a
\* list that does not name the owner that registration left; and a record
\* that only unregister or update-preferences wrote yields no token for
\* any list, and a returned token always has its own full record.
C22_CollectedTokensBelongToLastRegistrant ==
    /\ [](\A t \in Tokens, us \in OwnerLists, c \in Categories :
             /\ IsStub(devices, t) => t \notin Collected(devices, us, c)
             /\ t \in Collected(devices, us, c)
                   => /\ RecordKeysOf(devices, t) = {tokenId(t)}
                      /\ OwnerOf(devices, t) # {}
                      /\ OwnerOf(devices, t) \subseteq SeqToSet(us))
    /\ [][\A t \in Tokens :
             /\ \A uid \in Callers :
                    RegistersFor(uid, t)
                        => \A us \in OwnerLists, c \in Categories :
                               t \in Collected(devices', us, c)
                                   => uid \in SeqToSet(us)
             /\ (~ \E uid \in Callers : RegistersFor(uid, t))
                    => \A us \in OwnerLists, c \in Categories :
                           t \in Collected(devices', us, c)
                               => /\ OwnerOf(devices, t) # {}
                                  /\ OwnerOf(devices, t) \subseteq SeqToSet(us)]_vars

\* Token 1, user 1's at the start, registered again by user 2 and returned
\* for user 2 and no longer for user 1, while token 2 has only the record an
\* update-preferences request made, enabled, and is returned for nobody.
C22_Witness ==
    /\ clock = 3
    /\ OwnerOf(devices, 1) = {2}
    /\ \A c \in Categories :
          /\ Collected(devices, <<2>>, c) = {1}
          /\ Collected(devices, <<1>>, c) = {}
          /\ Collected(devices, <<1, 2>>, c) = {1}
    /\ IsStub(devices, 2)
    /\ devices[tokenId(2)].enabled = TRUE

====
